---- MODULE Spec2Model ----
(***************************************************************************)
(* A model of lxd_inventory.py: the filter pipeline, the address resolver, *)
(* the hostname resolver and the inventory assembler of LXDInventory.      *)
(*                                                                         *)
(* Strings are sequences of one-character strings, so that lower(),       *)
(* strip(), split(), startswith(), str.format(), re.sub() and the         *)
(* "-<counter>" suffix are computed rather than assumed.                   *)
(***************************************************************************)
EXTENDS Integers, Sequences, FiniteSets, TLC

VARIABLES
    config,      \* self.config['endpoints']: sequence of resolved endpoint configs
    world,       \* what the LXD API answers: per endpoint, per request path
    pc,          \* position in _generate_inventory / in a single function call
    ep,          \* index of the endpoint being processed
    instances,   \* instances returned by _get_instances, still to be processed
    cur,         \* locals of the instance loop: instance, hostnames, counter
    hostvars,    \* inventory['_meta']['hostvars']
    groups,      \* the local dict `groups`
    assigned,    \* ghost: per included instance, what the conflict check decided
    fetched,     \* ghost: the requests made so far, in order
    inventory,   \* the value returned by _generate_inventory (groups part)
    call,        \* arguments of the pure function under examination
    ret          \* its return value

vars == <<config, world, pc, ep, instances, cur, hostvars, groups, assigned, fetched,
          inventory, call, ret>>

----------------------------------------------------------------------------
(* Python str primitives                                                   *)

UpperChars == <<"A","B","C","D","E","F","G","H","I","J","K","L","M",
                "N","O","P","Q","R","S","T","U","V","W","X","Y","Z">>
LowerChars == <<"a","b","c","d","e","f","g","h","i","j","k","l","m",
                "n","o","p","q","r","s","t","u","v","w","x","y","z">>
DigitChars == <<"0","1","2","3","4","5","6","7","8","9">>
WhiteSpace == {" ", "\t", "\n"}

Range(s) == {s[i] : i \in 1..Len(s)}

LowerChar(c) ==
    IF \E i \in 1..Len(UpperChars) : UpperChars[i] = c
    THEN LowerChars[CHOOSE i \in 1..Len(UpperChars) : UpperChars[i] = c]
    ELSE c

\* str.lower()
StrLower(s) == [i \in 1..Len(s) |-> LowerChar(s[i])]

RECURSIVE LStrip(_)
LStrip(s) ==
    IF s # <<>> /\ Head(s) \in WhiteSpace THEN LStrip(Tail(s)) ELSE s

RECURSIVE RStrip(_)
RStrip(s) ==
    IF s # <<>> /\ s[Len(s)] \in WhiteSpace
    THEN RStrip(SubSeq(s, 1, Len(s) - 1)) ELSE s

\* str.strip()
StrStrip(s) == RStrip(LStrip(s))

\* str.startswith(p)
StartsWith(s, p) == Len(s) >= Len(p) /\ SubSeq(s, 1, Len(p)) = p

\* c in s, for a one-character c
HasChar(s, c) == \E i \in 1..Len(s) : s[i] = c

\* s.split(c, 1) of a string that contains c: <<before, after>> the first c
SplitFirst(s, c) ==
    LET i == CHOOSE k \in 1..Len(s) :
                 s[k] = c /\ \A j \in 1..(k - 1) : s[j] # c
    IN  <<SubSeq(s, 1, i - 1), SubSeq(s, i + 1, Len(s))>>

\* str(n) for n >= 0
RECURSIVE IntToStr(_)
IntToStr(n) ==
    IF n < 10 THEN <<DigitChars[n + 1]>>
    ELSE IntToStr(n \div 10) \o <<DigitChars[(n % 10) + 1]>>

\* x in list
InList(x, l) == \E i \in 1..Len(l) : l[i] = x

\* The value None. Every string of the model is a sequence of one-character
\* strings, so no string equals this one-element sequence.
None == <<"None">>

\* dict.get(k) (None when the key is absent); a dict is a function
DictGet(d, k) == IF k \in DOMAIN d THEN d[k] ELSE None

EmptyDict == <<>>

----------------------------------------------------------------------------
(* re.match(pattern, string) for the patterns the model draws: literal     *)
(* characters, '.', a postfix '*', '^' and '$'. The pattern alphabet has   *)
(* no escapes, groups, classes or other quantifiers; an opening or closing *)
(* parenthesis or an opening bracket is therefore always unbalanced.       *)

ReUnbalanced == {"(", ")", "["}

\* re.compile(pattern) raises re.error
ReError(p) ==
    \/ \E i \in 1..Len(p) : p[i] \in ReUnbalanced
    \/ \E i \in 1..Len(p) :
          /\ p[i] = "*"
          /\ (i = 1 \/ p[i - 1] \in {"^", "*", "$"})   \* nothing / multiple repeat

ReAtom(c, x) == (c = "." /\ x # "\n") \/ c = x

RECURSIVE ReMatchHere(_, _, _)
ReMatchHere(p, s, atStart) ==
    IF p = <<>> THEN TRUE
    ELSE IF Len(p) >= 2 /\ p[2] = "*"
    THEN \E k \in 0..Len(s) :
            /\ \A j \in 1..k : ReAtom(p[1], s[j])
            /\ ReMatchHere(SubSeq(p, 3, Len(p)), SubSeq(s, k + 1, Len(s)),
                           atStart /\ k = 0)
    ELSE IF p[1] = "^" THEN atStart /\ ReMatchHere(Tail(p), s, atStart)
    ELSE IF p[1] = "$" THEN s = <<>> /\ ReMatchHere(Tail(p), s, atStart)
    ELSE /\ s # <<>>
         /\ ReAtom(p[1], s[1])
         /\ ReMatchHere(Tail(p), Tail(s), FALSE)

\* bool(re.match(p, s)) for a pattern that compiles: anchored at the start of s
ReMatch(p, s) == ReMatchHere(p, s, TRUE)

----------------------------------------------------------------------------
(* String literals of the program                                          *)

s_all       == <<"a","l","l">>
s_default   == <<"d","e","f","a","u","l","t">>
s_regex     == <<"r","e","g","e","x",":">>
s_neq       == <<"!","=">>
s_global    == <<"g","l","o","b","a","l">>
s_inet      == <<"i","n","e","t">>
s_inet6     == <<"i","n","e","t","6">>
s_container == <<"c","o","n","t","a","i","n","e","r">>
s_vm        == <<"v","i","r","t","u","a","l","-","m","a","c","h","i","n","e">>
s_running   == <<"r","u","n","n","i","n","g">>
s_stopped   == <<"s","t","o","p","p","e","d">>
s_frozen    == <<"f","r","o","z","e","n">>
s_error     == <<"e","r","r","o","r">>
s_name      == <<"n","a","m","e">>
s_project   == <<"p","r","o","j","e","c","t">>
s_endpoint  == <<"e","n","d","p","o","i","n","t">>
s_type      == <<"t","y","p","e">>
s_status    == <<"s","t","a","t","u","s">>

----------------------------------------------------------------------------
(* Filter pipeline                                                         *)

\* instance.get('lxd_project', 'default'); an absent key is None
InstanceProject(instance) ==
    IF instance.lxd_project = None THEN s_default ELSE instance.lxd_project

\* a variant that forgets the project of a project/name pattern
ProjectNameMatches_anyproject(pattern_project, pattern_name, instance_project, instance_name) ==
    pattern_name = instance_name

\* `pattern_project == instance_project and pattern_name == instance_name`
ProjectNameMatches(pattern_project, pattern_name, instance_project, instance_name) ==
    pattern_project = instance_project /\ pattern_name = instance_name

\* a variant that leaves the loop at an invalid regex, excluding nothing
AfterReError_stop(continue) == FALSE

\* `except re.error: ... continue`: the remaining patterns decide
AfterReError(continue) == continue

RECURSIVE ShouldExcludeInstance(_, _)
ShouldExcludeInstance(instance, exclude_names) ==
    IF exclude_names = <<>> THEN FALSE
    ELSE
    LET instance_name    == instance.name
        instance_project == InstanceProject(instance)
        exclude_pattern  == StrStrip(Head(exclude_names))
        continue         == ShouldExcludeInstance(instance, Tail(exclude_names))
    IN  IF exclude_pattern = <<>> THEN continue
        ELSE IF StartsWith(exclude_pattern, s_regex)
        THEN LET regex_pattern == SubSeq(exclude_pattern, 7, Len(exclude_pattern))
                 scoped  == HasChar(regex_pattern, "/")
                 pattern == IF scoped THEN SplitFirst(regex_pattern, "/")[2]
                                      ELSE regex_pattern
             IN  IF scoped /\ SplitFirst(regex_pattern, "/")[1] # instance_project
                 THEN continue
                 ELSE IF ReError(pattern) THEN AfterReError(continue)
                 ELSE IF ReMatch(pattern, instance_name) THEN TRUE
                 ELSE continue
        ELSE IF HasChar(exclude_pattern, "/")
        THEN LET pattern_project == SplitFirst(exclude_pattern, "/")[1]
                 pattern_name    == SplitFirst(exclude_pattern, "/")[2]
             IN  IF ProjectNameMatches(pattern_project, pattern_name,
                                       instance_project, instance_name)
                 THEN TRUE ELSE continue
        ELSE IF exclude_pattern = instance_name THEN TRUE
        ELSE continue

RECURSIVE ShouldExcludeProject(_, _)
ShouldExcludeProject(project_name, exclude_projects) ==
    IF exclude_projects = <<>> THEN FALSE
    ELSE
    LET exclude_pattern == StrStrip(Head(exclude_projects))
        continue        == ShouldExcludeProject(project_name, Tail(exclude_projects))
    IN  IF exclude_pattern = <<>> THEN continue
        ELSE IF StartsWith(exclude_pattern, s_regex)
        THEN LET regex_pattern == SubSeq(exclude_pattern, 7, Len(exclude_pattern))
             IN  IF ReError(regex_pattern) THEN AfterReError(continue)
                 ELSE IF ReMatch(regex_pattern, project_name) THEN TRUE
                 ELSE continue
        ELSE IF exclude_pattern = project_name THEN TRUE
        ELSE continue

\* a variant that looks in the instance config first
ActualValue_config_first(instance, actual_tag_key) ==
    IF DictGet(instance.config, actual_tag_key) = None
    THEN DictGet(instance.expanded_config, actual_tag_key)
    ELSE DictGet(instance.config, actual_tag_key)

\* actual_value = expanded_config.get(key), instance_config.get(key) if None
ActualValue(instance, actual_tag_key) ==
    IF DictGet(instance.expanded_config, actual_tag_key) = None
    THEN DictGet(instance.config, actual_tag_key)
    ELSE DictGet(instance.expanded_config, actual_tag_key)

\* One iteration of the loop of _match_tag_filters: TRUE when it does not
\* return False. filter_spec is [isdict, value, negate]; for a non-dict
\* filter_spec, value is the filter_spec itself.
TagPasses(instance, tag_key, filter_spec) ==
    LET instance_config == instance.config
        expanded_config == instance.expanded_config
        suffixed == /\ ~filter_spec.isdict
                    /\ Len(tag_key) >= 2
                    /\ SubSeq(tag_key, Len(tag_key) - 1, Len(tag_key)) = s_neq
        expected_value == filter_spec.value
        negate == IF filter_spec.isdict THEN filter_spec.negate ELSE suffixed
        actual_tag_key == IF suffixed THEN SubSeq(tag_key, 1, Len(tag_key) - 2)
                                      ELSE tag_key
        actual_value == ActualValue(instance, actual_tag_key)
        key_exists == \/ actual_tag_key \in DOMAIN expanded_config
                      \/ actual_tag_key \in DOMAIN instance_config
    IN  IF expected_value = None
        THEN IF negate THEN ~key_exists ELSE key_exists
        ELSE IF negate THEN actual_value # expected_value
                       ELSE actual_value = expected_value

\* The loop returns False at the first key that fails, True otherwise.
MatchTagFilters(instance, tag_filters) ==
    \A tag_key \in DOMAIN tag_filters :
        TagPasses(instance, tag_key, tag_filters[tag_key])

\* any(profile in instance.get('profiles', []) for profile in profile_filter)
AnyProfile(profile_filter, profiles) ==
    \E i \in 1..Len(profile_filter) : InList(profile_filter[i], profiles)

\* a variant that compares with the filter entries as configured
StatusFilter_asis(filters) == filters.status

\* status_filter = [s.lower().strip() for s in filters['status']]
StatusFilter(filters) ==
    [i \in 1..Len(filters.status) |-> StrStrip(StrLower(filters.status[i]))]

FilterInstance(instance, endpoint_config) ==
    LET filters == endpoint_config.filters
        status_filter  == StatusFilter(filters)
        type_filter    == filters.type
        profile_filter == filters.profiles
        exclude_names  == filters.exclude_names
        tag_filters    == filters.tags
    IN  IF /\ status_filter # <<>>
           /\ ~InList(s_all, status_filter)
           /\ ~InList(StrLower(instance.status), status_filter)
        THEN FALSE
        ELSE IF /\ type_filter # <<>>
                /\ ~InList(s_all, type_filter)
                /\ ~InList(instance.type, type_filter)
        THEN FALSE
        ELSE IF /\ profile_filter # <<>>
                /\ ~AnyProfile(profile_filter, instance.profiles)
        THEN FALSE
        ELSE IF ShouldExcludeInstance(instance, exclude_names) THEN FALSE
        ELSE IF DOMAIN tag_filters # {} /\ ~MatchTagFilters(instance, tag_filters)
        THEN FALSE
        ELSE TRUE

----------------------------------------------------------------------------
(* Address resolver                                                        *)
(* instance.state is [has_network, network]; network is the sequence of    *)
(* the items of state['network'] in dict order, each [name, data_ok,       *)
(* addresses], data_ok saying that the interface data is a dict whose      *)
(* 'addresses' is a list; an address is [family, scope, address].          *)

\* a variant that takes the addresses of every scope
IsCandidate_anyscope(addr) == TRUE

\* not (`addr.get('scope') != 'global'`)
IsCandidate(addr) == addr.scope = s_global

\* the inner loop over one interface's addresses; acc is [v4, v6]
RECURSIVE WalkAddresses(_, _, _)
WalkAddresses(addresses, interface_name, acc) ==
    IF addresses = <<>> THEN acc
    ELSE
    LET addr == Head(addresses)
        ip_address == addr.address
        family     == addr.family
        next ==
            IF ~IsCandidate(addr) THEN acc
            ELSE IF family = s_inet /\ ip_address # <<>>
            THEN [acc EXCEPT !.v4 = Append(@, <<ip_address, interface_name>>)]
            ELSE IF family = s_inet6 /\ ip_address # <<>>
            THEN [acc EXCEPT !.v6 = Append(@, <<ip_address, interface_name>>)]
            ELSE acc
    IN  WalkAddresses(Tail(addresses), interface_name, next)

\* the outer loop over network.items()
RECURSIVE WalkNetwork(_, _, _)
WalkNetwork(network, ignore_interfaces, acc) ==
    IF network = <<>> THEN acc
    ELSE
    LET interface == Head(network)
        next ==
            IF InList(interface.name, ignore_interfaces) THEN acc
            ELSE IF ~interface.data_ok THEN acc
            ELSE WalkAddresses(interface.addresses, interface.name, acc)
    IN  WalkNetwork(Tail(network), ignore_interfaces, next)

\* [ip for ip, _ in pairs]
Firsts(pairs) == [i \in 1..Len(pairs) |-> pairs[i][1]]

\* a variant without the fallback to the other family
PrimaryIp_nofallback(prefer_ipv6, ipv4_addresses, ipv6_addresses) ==
    IF prefer_ipv6
    THEN IF ipv6_addresses # <<>> THEN ipv6_addresses[1][1] ELSE None
    ELSE IF ipv4_addresses # <<>> THEN ipv4_addresses[1][1] ELSE None

\* primary_ip, determined by the preference
PrimaryIp(prefer_ipv6, ipv4_addresses, ipv6_addresses) ==
    IF prefer_ipv6
    THEN IF ipv6_addresses # <<>> THEN ipv6_addresses[1][1]
         ELSE IF ipv4_addresses # <<>> THEN ipv4_addresses[1][1]
         ELSE None
    ELSE IF ipv4_addresses # <<>> THEN ipv4_addresses[1][1]
         ELSE IF ipv6_addresses # <<>> THEN ipv6_addresses[1][1]
         ELSE None

\* returns [primary, all_ips]
GetInstanceIps(instance, endpoint_config) ==
    IF ~instance.state.has_network \/ instance.state.network = <<>>
    THEN [primary |-> None, all_ips |-> <<>>]
    ELSE
    LET filters           == endpoint_config.filters
        ignore_interfaces == filters.ignore_interfaces
        prefer_ipv6       == filters.prefer_ipv6
        found == WalkNetwork(instance.state.network, ignore_interfaces,
                             [v4 |-> <<>>, v6 |-> <<>>])
        ipv4_addresses == found.v4
        ipv6_addresses == found.v6
        primary_ip == PrimaryIp(prefer_ipv6, ipv4_addresses, ipv6_addresses)
        all_ips ==
            IF prefer_ipv6
            THEN Firsts(ipv6_addresses) \o Firsts(ipv4_addresses)
            ELSE Firsts(ipv4_addresses) \o Firsts(ipv6_addresses)
    IN  [primary |-> primary_ip, all_ips |-> all_ips]

----------------------------------------------------------------------------
(* Hostname resolver                                                       *)

\* variables of _format_hostname, as a dict
FormatVariables(instance, endpoint_config) ==
    LET v == <<instance.name,
               InstanceProject(instance),
               IF instance.lxd_endpoint = None THEN endpoint_config.name
                                               ELSE instance.lxd_endpoint,
               instance.type,
               StrLower(instance.status)>>
        k == <<s_name, s_project, s_endpoint, s_type, s_status>>
    IN  [key \in Range(k) |-> v[CHOOSE i \in 1..5 : k[i] = key]]

\* str.format(**variables) on a template of literal text, {field}
\* replacement fields and the escapes {{ and }}: [ok, s]. ok is FALSE when
\* format raises (KeyError for an unknown field, IndexError for {},
\* ValueError for a single brace).
RECURSIVE StrFormat(_, _)
StrFormat(t, variables) ==
    IF t = <<>> THEN [ok |-> TRUE, s |-> <<>>]
    ELSE IF Len(t) >= 2 /\ t[1] = t[2] /\ t[1] \in {"{", "}"}
    THEN LET r == StrFormat(SubSeq(t, 3, Len(t)), variables)
         IN  [ok |-> r.ok, s |-> <<t[1]>> \o r.s]
    ELSE IF t[1] = "}" THEN [ok |-> FALSE, s |-> <<>>]
    ELSE IF t[1] = "{"
    THEN IF ~HasChar(t, "}") THEN [ok |-> FALSE, s |-> <<>>]
         ELSE LET parts == SplitFirst(Tail(t), "}")
                  field == parts[1]
                  r     == StrFormat(parts[2], variables)
              IN  IF field \notin DOMAIN variables \/ HasChar(field, "{")
                  THEN [ok |-> FALSE, s |-> <<>>]
                  ELSE [ok |-> r.ok, s |-> variables[field] \o r.s]
    ELSE LET r == StrFormat(Tail(t), variables)
         IN  [ok |-> r.ok, s |-> <<t[1]>> \o r.s]

HostnameChars == Range(UpperChars) \cup Range(LowerChars) \cup Range(DigitChars)
                     \cup {".", "-"}

\* re.sub(r'[^a-zA-Z0-9.-]', '-', hostname)
ReplaceInvalid(h) == [i \in 1..Len(h) |-> IF h[i] \in HostnameChars THEN h[i] ELSE "-"]

\* re.sub(r'-+', '-', hostname)
RECURSIVE CollapseHyphens(_)
CollapseHyphens(h) ==
    IF Len(h) < 2 THEN h
    ELSE IF h[1] = "-" /\ h[2] = "-" THEN CollapseHyphens(Tail(h))
    ELSE <<h[1]>> \o CollapseHyphens(Tail(h))

\* str.strip('-')
RECURSIVE StripHyphens(_)
StripHyphens(h) ==
    IF h # <<>> /\ h[1] = "-" THEN StripHyphens(Tail(h))
    ELSE IF h # <<>> /\ h[Len(h)] = "-" THEN StripHyphens(SubSeq(h, 1, Len(h) - 1))
    ELSE h

\* a variant that trims the hyphens before it replaces and collapses
Sanitize_strip_first(h) == CollapseHyphens(ReplaceInvalid(StripHyphens(h)))

Sanitize(h) == StripHyphens(CollapseHyphens(ReplaceInvalid(h)))

FormatHostname(instance, endpoint_config) ==
    LET format_template == endpoint_config.hostname_format
        formatted == StrFormat(format_template, FormatVariables(instance, endpoint_config))
    IN  IF formatted.ok THEN Sanitize(formatted.s) ELSE instance.name

----------------------------------------------------------------------------
(* Instance collector                                                      *)
(* The answers of one endpoint (world[e]) are                              *)
(*   projects0: the metadata of /projects?recursion=0,                     *)
(*   projects1: the metadata of /projects,                                 *)
(*   inst:      project name -> the metadata of /instances?...&project=p.  *)
(* A projects answer is [kind, items]: "fail" is the {} that _make_request *)
(* returns on any failure, "list" a list of URLs, "dict" a dict with those *)
(* keys, "other" any other non-empty value. An instances answer is         *)
(* [ok, items]; a project absent from inst fails.                          *)

s_projects_path == <<"/","p","r","o","j","e","c","t","s","/">>

\* sub in s
Contains(s, sub) ==
    \E i \in 1..(Len(s) - Len(sub) + 1) : SubSeq(s, i, i + Len(sub) - 1) = sub

\* s.split('/')[-1]
RECURSIVE LastSegment(_)
LastSegment(s) ==
    IF HasChar(s, "/") THEN LastSegment(SplitFirst(s, "/")[2]) ELSE s

\* [url.split('/')[-1] for url in projects_data if '/projects/' in url]
ProjectNames(urls) ==
    LET kept == SelectSeq(urls, LAMBDA url : Contains(url, s_projects_path))
    IN  [i \in 1..Len(kept) |-> LastSegment(kept[i])]

\* `not projects_data`
Falsy(answer) == answer.kind = "fail" \/ (answer.kind # "other" /\ answer.items = <<>>)

\* the block under `if 'all' in projects`: [returned, projects, fetches]
DiscoverProjects(w) ==
    LET first == <<"projects0">>
        both  == <<"projects0", "projects1">>
        orDefault(l) == IF l = <<>> THEN <<s_default>> ELSE l
    IN  IF Falsy(w.projects0)
        THEN [returned |-> TRUE, projects |-> <<>>, fetches |-> first]
        ELSE IF w.projects0.kind = "list"
        THEN [returned |-> FALSE, fetches |-> first,
              projects |-> orDefault(ProjectNames(w.projects0.items))]
        ELSE [returned |-> FALSE, fetches |-> both,
              projects |->
                  orDefault(IF w.projects1.kind \in {"dict", "fail"}
                            THEN IF w.projects1.kind = "fail" THEN <<>>
                                 ELSE w.projects1.items
                            ELSE IF w.projects1.kind = "list"
                            THEN ProjectNames(w.projects1.items)
                            ELSE <<s_default>>)]

\* a variant that knows literal patterns only
KeepProjects_literal(projects, exclude_projects) ==
    SelectSeq(projects, LAMBDA p : ~InList(p, exclude_projects))

\* [p for p in projects if not self._should_exclude_project(p, ...)]
KeepProjects(projects, exclude_projects) ==
    SelectSeq(projects, LAMBDA p : ~ShouldExcludeProject(p, exclude_projects))

\* instance['lxd_project'] = project; instance['lxd_endpoint'] = endpoint_name
Stamp(items, project, endpoint_name) ==
    [i \in 1..Len(items) |->
        [items[i] EXCEPT !.lxd_project = project, !.lxd_endpoint = endpoint_name]]

\* the concatenation of a list of lists (all_instances.extend, repeated)
RECURSIVE Concat(_)
Concat(lists) ==
    IF lists = <<>> THEN <<>>
    ELSE IF Len(lists) = 1 THEN lists[1]
    ELSE LET half == Len(lists) \div 2
         IN  Concat(SubSeq(lists, 1, half)) \o Concat(SubSeq(lists, half + 1, Len(lists)))

\* a variant of the loop that stops at the first project whose fetch fails
FetchProjects_stop(projects, w, endpoint_name) ==
    LET failed(i) == ~(projects[i] \in DOMAIN w.inst /\ w.inst[projects[i]].ok)
        upto == IF \E i \in 1..Len(projects) : failed(i)
                THEN (CHOOSE i \in 1..Len(projects) :
                          failed(i) /\ \A j \in 1..(i - 1) : ~failed(j)) - 1
                ELSE Len(projects)
    IN  Concat([i \in 1..upto |->
                   Stamp(w.inst[projects[i]].items, projects[i], endpoint_name)])

\* the loop `for project in projects`: the instances gathered
FetchProjects(projects, w, endpoint_name) ==
    LET got(project) == IF project \in DOMAIN w.inst /\ w.inst[project].ok
                        THEN w.inst[project].items ELSE <<>>
    IN  Concat([i \in 1..Len(projects) |->
                   Stamp(got(projects[i]), projects[i], endpoint_name)])

----------------------------------------------------------------------------
(* The order of the requests and of the hosts added                        *)

\* a variant that lists the projects after it has fetched their instances
GetInstances_listing_last(endpoint_config, w) ==
    LET endpoint_name    == endpoint_config.name
        exclude_projects == endpoint_config.filters.exclude_projects
        wanted     == endpoint_config.filters.projects
        discovered == IF InList(s_all, wanted) THEN DiscoverProjects(w)
                      ELSE [returned |-> FALSE, projects |-> wanted, fetches |-> <<>>]
        listing    == [i \in 1..Len(discovered.fetches) |-> <<discovered.fetches[i], <<>>>>]
        projects   == IF exclude_projects # <<>>
                      THEN KeepProjects(discovered.projects, exclude_projects)
                      ELSE discovered.projects
    IN  IF discovered.returned
        THEN [instances |-> <<>>, fetches |-> listing]
        ELSE [instances |-> FetchProjects(projects, w, endpoint_name),
              fetches   |-> [i \in 1..Len(projects) |-> <<"instances", projects[i]>>]
                            \o listing]

\* a variant that applies exclude_projects to discovered projects only
GetInstances_discovered_only(endpoint_config, w) ==
    LET endpoint_name    == endpoint_config.name
        exclude_projects == endpoint_config.filters.exclude_projects
        wanted     == endpoint_config.filters.projects
        discovered == IF InList(s_all, wanted) THEN DiscoverProjects(w)
                      ELSE [returned |-> FALSE, projects |-> wanted, fetches |-> <<>>]
        listing    == [i \in 1..Len(discovered.fetches) |-> <<discovered.fetches[i], <<>>>>]
        projects   == IF exclude_projects # <<>> /\ InList(s_all, wanted)
                      THEN KeepProjects(discovered.projects, exclude_projects)
                      ELSE discovered.projects
    IN  IF discovered.returned
        THEN [instances |-> <<>>, fetches |-> listing]
        ELSE [instances |-> FetchProjects(projects, w, endpoint_name),
              fetches   |-> listing \o
                            [i \in 1..Len(projects) |-> <<"instances", projects[i]>>]]

\* _get_instances: [instances, fetches], fetches being the requests made,
\* in order, each <<kind, project>>
GetInstances(endpoint_config, w) ==
    LET endpoint_name    == endpoint_config.name
        exclude_projects == endpoint_config.filters.exclude_projects
        wanted     == endpoint_config.filters.projects
        discovered == IF InList(s_all, wanted) THEN DiscoverProjects(w)
                      ELSE [returned |-> FALSE, projects |-> wanted, fetches |-> <<>>]
        listing    == [i \in 1..Len(discovered.fetches) |-> <<discovered.fetches[i], <<>>>>]
        projects   == IF exclude_projects # <<>>
                      THEN KeepProjects(discovered.projects, exclude_projects)
                      ELSE discovered.projects
    IN  IF discovered.returned
        THEN [instances |-> <<>>, fetches |-> listing]
        ELSE [instances |-> FetchProjects(projects, w, endpoint_name),
              fetches   |-> listing \o
                            [i \in 1..Len(projects) |-> <<"instances", projects[i]>>]]

----------------------------------------------------------------------------
(* Inventory assembler                                                     *)
(* A group name is <<prefix, rest>>: the f-string prefix and the text      *)
(* substituted after it. The static names have an empty rest; no name of   *)
(* one family is a name of another, as the prefixes differ.                *)

MaxConflicts == 100

g_all        == <<"all", <<>>>>
g_containers == <<"lxd_containers", <<>>>>
g_vms        == <<"lxd_vms", <<>>>>
g_running    == <<"lxd_running", <<>>>>
g_stopped    == <<"lxd_stopped", <<>>>>
g_frozen     == <<"lxd_frozen", <<>>>>
g_error      == <<"lxd_error", <<>>>>
g_endpoint(endpoint_name) == <<"lxd_endpoint_", endpoint_name>>
g_profile(profile)        == <<"lxd_profile_", profile>>
g_project(project)        == <<"lxd_project_", project>>

StaticGroups == {g_all, g_containers, g_vms, g_running, g_stopped, g_frozen, g_error}

\* the dict `groups` as first built: every static group, without hosts
InitialGroups == [g \in StaticGroups |-> <<>>]

\* groups[name] = {'hosts': []}
ResetGroup(g, name) == [k \in DOMAIN g \cup {name} |-> IF k = name THEN <<>> ELSE g[k]]

\* if name not in groups: groups[name] = {'hosts': []}
\* groups[name]['hosts'].append(hostname)
AppendHost(g, name, hostname) ==
    [k \in DOMAIN g \cup {name} |->
        IF k = name
        THEN IF name \in DOMAIN g THEN Append(g[name], hostname) ELSE <<hostname>>
        ELSE g[k]]

\* f"{original_hostname}-{counter}"
Suffixed(original_hostname, counter) ==
    original_hostname \o <<"-">> \o IntToStr(counter)

\* a variant that gives up after the first suffix
TooManyConflicts_first(counter) == counter > 1

\* a variant that never gives up
TooManyConflicts_never(counter) == FALSE

\* `if counter > 100: break`, counter being the incremented one
TooManyConflicts(counter) == counter > MaxConflicts

\* the type group of an instance, if any
TypeGroups(instance) ==
    IF instance.type = s_container THEN {g_containers}
    ELSE IF instance.type = s_vm THEN {g_vms}
    ELSE {}

\* a variant that compares the status as answered, not lower-cased
StatusGroups_raw(instance) ==
    LET status == instance.status
    IN  IF status = s_running THEN {g_running}
        ELSE IF status = s_stopped THEN {g_stopped}
        ELSE IF status = s_frozen THEN {g_frozen}
        ELSE IF status = s_error THEN {g_error}
        ELSE {}

\* the status group of an instance, if any
StatusGroups(instance) ==
    LET status == StrLower(instance.status)
    IN  IF status = s_running THEN {g_running}
        ELSE IF status = s_stopped THEN {g_stopped}
        ELSE IF status = s_frozen THEN {g_frozen}
        ELSE IF status = s_error THEN {g_error}
        ELSE {}

\* groups after appending hostname to each group of a set (each once)
RECURSIVE AppendToAll(_, _, _)
AppendToAll(g, names, hostname) ==
    IF names = {} THEN g
    ELSE LET n == CHOOSE x \in names : TRUE
         IN  AppendToAll(AppendHost(g, n, hostname), names \ {n}, hostname)

\* a variant that stops after the first profile
AppendProfiles_first(g, profiles, hostname) ==
    IF profiles = <<>> THEN g
    ELSE AppendHost(g, g_profile(Head(profiles)), hostname)

\* for profile in instance.get('profiles', []): ...
RECURSIVE AppendProfiles(_, _, _)
AppendProfiles(g, profiles, hostname) ==
    IF profiles = <<>> THEN g
    ELSE AppendProfiles(AppendHost(g, g_profile(Head(profiles)), hostname),
                        Tail(profiles), hostname)

\* the groups after the body of the instance loop
GroupsWith(g, instance, endpoint_name, hostname) ==
    LET g1 == AppendHost(g, g_all, hostname)
        g2 == AppendHost(g1, g_endpoint(endpoint_name), hostname)
        g3 == AppendToAll(g2, TypeGroups(instance), hostname)
        g4 == AppendToAll(g3, StatusGroups(instance), hostname)
        g5 == AppendProfiles(g4, instance.profiles, hostname)
    IN  AppendHost(g5, g_project(InstanceProject(instance)), hostname)

\* the dict `hostvars` of one host. `present` names the optional keys set.
HostVars(instance, endpoint_config, hostname) ==
    LET ips        == GetInstanceIps(instance, endpoint_config)
        primary_ip == ips.primary
        all_ips    == ips.all_ips
        truthy_ip  == primary_ip # None /\ primary_ip # <<>>
    IN  [lxd_name         |-> instance.name,
         lxd_hostname     |-> hostname,
         lxd_type         |-> instance.type,
         lxd_status       |-> instance.status,
         lxd_architecture |-> instance.architecture,
         lxd_profiles     |-> instance.profiles,
         lxd_project      |-> InstanceProject(instance),
         lxd_endpoint     |-> IF instance.lxd_endpoint = None THEN endpoint_config.name
                                                               ELSE instance.lxd_endpoint,
         lxd_endpoint_url |-> endpoint_config.endpoint,
         ansible_host     |-> IF truthy_ip THEN primary_ip ELSE <<>>,
         lxd_ip           |-> IF all_ips # <<>> THEN all_ips
                              ELSE IF truthy_ip THEN <<primary_ip>> ELSE <<>>,
         lxd_config       |-> instance.config,
         lxd_expanded_config |-> instance.expanded_config,
         present |-> (IF truthy_ip THEN {"ansible_host"} ELSE {})
                     \cup (IF all_ips # <<>> \/ truthy_ip THEN {"lxd_ip"} ELSE {})
                     \cup (IF DOMAIN instance.config # {} THEN {"lxd_config"} ELSE {})
                     \cup (IF DOMAIN instance.expanded_config # {}
                           THEN {"lxd_expanded_config"} ELSE {})]

\* inventory['_meta']['hostvars'][formatted_hostname] = hostvars
\* a variant that stores the record under the LXD name of the instance
PutHost_by_name(hv, hostname, record) ==
    [k \in DOMAIN hv \cup {record.lxd_name} |-> IF k = record.lxd_name THEN record ELSE hv[k]]

PutHost(hv, hostname, record) ==
    [k \in DOMAIN hv \cup {hostname} |-> IF k = hostname THEN record ELSE hv[k]]

\* a variant that keeps every group
NonEmptyGroups_all(g) == g

\* groups = {k: v for k, v in groups.items() if v['hosts']}
NonEmptyGroups(g) == [k \in {x \in DOMAIN g : g[x] # <<>>} |-> g[k]]

---------------------------------------------------------------------------------------------------------------------------------------------------
(* _generate_inventory as a state machine                                  *)
(* pc: "idle" (object constructed), "endpoints" (at the head of the        *)
(* endpoint loop), "instances" (at the head of the instance loop of        *)
(* endpoint ep), "conflict" (at the test of the while loop), "add" (after  *)
(* its break), "done" (returned). `cur` holds the locals of the instance   *)
(* loop. `assigned` records, for every instance that passed the filter,    *)
(* what the conflict check decided; `fetched` the requests made so far.    *)

NoCall == <<>>
NoCur  == <<>>

\* a variant that keeps the hosts of the generation before
BeginGenerate_keep ==
    /\ pc = "idle"
    /\ pc' = "endpoints"
    /\ ep' = 1
    /\ hostvars' = hostvars
    /\ groups' = InitialGroups
    /\ assigned' = <<>>
    /\ fetched' = <<>>
    /\ UNCHANGED <<config, world, instances, cur, inventory, call, ret>>

BeginGenerate ==
    /\ pc = "idle"
    /\ pc' = "endpoints"
    /\ ep' = 1
    /\ hostvars' = EmptyDict
    /\ groups' = InitialGroups
    /\ assigned' = <<>>
    /\ fetched' = <<>>
    /\ UNCHANGED <<config, world, instances, cur, inventory, call, ret>>

\* instances = self._get_instances(endpoint_config); the endpoint group
FetchEndpoint ==
    /\ pc = "endpoints"
    /\ ep <= Len(config)
    /\ LET got == GetInstances(config[ep], world[ep])
       IN  /\ instances' = got.instances
           /\ fetched' = fetched \o [i \in 1..Len(got.fetches) |->
                                        <<ep, got.fetches[i][1], got.fetches[i][2]>>]
    /\ groups' = ResetGroup(groups, g_endpoint(config[ep].name))
    /\ pc' = "instances"
    /\ UNCHANGED <<config, world, ep, cur, hostvars, assigned, inventory, call, ret>>

\* a variant in which a rejected instance still takes its hostname
ProcessInstance_reserve ==
    /\ pc = "instances"
    /\ instances # <<>>
    /\ LET instance        == Head(instances)
           endpoint_config == config[ep]
           hostname        == FormatHostname(instance, endpoint_config)
       IN  IF ~FilterInstance(instance, endpoint_config)
           THEN /\ hostvars' = PutHost(hostvars, hostname,
                                       HostVars(instance, endpoint_config, hostname))
                /\ UNCHANGED <<pc, cur>>
           ELSE /\ cur' = [instance           |-> instance,
                           original_hostname  |-> hostname,
                           formatted_hostname |-> hostname,
                           counter            |-> 1]
                /\ pc' = "conflict"
                /\ UNCHANGED hostvars
    /\ instances' = Tail(instances)
    /\ UNCHANGED <<config, world, ep, groups, assigned, fetched, inventory, call, ret>>

\* the head of `for instance in instances`: the filter, the hostname format
ProcessInstance ==
    /\ pc = "instances"
    /\ instances # <<>>
    /\ LET instance        == Head(instances)
           endpoint_config == config[ep]
       IN  IF ~FilterInstance(instance, endpoint_config)
           THEN UNCHANGED <<pc, cur>>
           ELSE /\ cur' = [instance           |-> instance,
                           original_hostname  |-> FormatHostname(instance, endpoint_config),
                           formatted_hostname |-> FormatHostname(instance, endpoint_config),
                           counter            |-> 1]
                /\ pc' = "conflict"
    /\ instances' = Tail(instances)
    /\ UNCHANGED <<config, world, ep, hostvars, groups, assigned, fetched, inventory,
                   call, ret>>

\* one iteration of `while formatted_hostname in inventory['_meta']['hostvars']`
ConflictStep ==
    /\ pc = "conflict"
    /\ cur.formatted_hostname \in DOMAIN hostvars
    /\ cur' = [cur EXCEPT !.formatted_hostname = Suffixed(cur.original_hostname, cur.counter),
                          !.counter = cur.counter + 1]
    /\ pc' = IF TooManyConflicts(cur.counter + 1) THEN "add" ELSE "conflict"
    /\ UNCHANGED <<config, world, ep, instances, hostvars, groups, assigned, fetched,
                   inventory, call, ret>>

\* the rest of the loop body, once the while loop is left
AddHost ==
    /\ \/ pc = "conflict" /\ cur.formatted_hostname \notin DOMAIN hostvars
       \/ pc = "add"
    /\ LET instance           == cur.instance
           endpoint_config    == config[ep]
           formatted_hostname == cur.formatted_hostname
       IN  /\ groups' = GroupsWith(groups, instance, endpoint_config.name,
                                   formatted_hostname)
           /\ hostvars' = PutHost(hostvars, formatted_hostname,
                                  HostVars(instance, endpoint_config, formatted_hostname))
           /\ assigned' = Append(assigned,
                  [instance |-> instance,
                   ep       |-> ep,
                   original |-> cur.original_hostname,
                   hostname |-> formatted_hostname,
                   counter  |-> cur.counter,
                   collided |-> formatted_hostname \in DOMAIN hostvars])
    /\ cur' = NoCur
    /\ pc' = "instances"
    /\ UNCHANGED <<config, world, ep, instances, fetched, inventory, call, ret>>

\* the instance loop of endpoint ep is over
NextEndpoint ==
    /\ pc = "instances"
    /\ instances = <<>>
    /\ ep' = ep + 1
    /\ pc' = "endpoints"
    /\ UNCHANGED <<config, world, instances, cur, hostvars, groups, assigned, fetched,
                   inventory, call, ret>>

\* remove the empty groups, inventory.update(groups), return inventory
Finish ==
    /\ pc = "endpoints"
    /\ ep > Len(config)
    /\ inventory' = [hostvars |-> hostvars, groups |-> NonEmptyGroups(groups)]
    /\ pc' = "done"
    /\ UNCHANGED <<config, world, ep, instances, cur, hostvars, groups, assigned,
                   fetched, call, ret>>

Next ==
    \/ BeginGenerate
    \/ FetchEndpoint
    \/ ProcessInstance
    \/ ConflictStep
    \/ AddHost
    \/ NextEndpoint
    \/ Finish

-----
(* The inputs of the model: resolved endpoint configurations and answers   *)
(* of the LXD API.                                                         *)

MaxInst   == 3     \* instances answered in all, in the short runs
MaxStream == 102   \* instances answered in all, in the long runs

n_a     == <<"a">>
n_a1    == <<"a","-","1">>
n_b     == <<"b">>
n_e1    == <<"e","1">>
n_e2    == <<"e","2">>
n_proj  == <<"p","r","o","j">>
n_web   == <<"w","e","b">>
n_arch  == <<"x","8","6">>
st_Running  == <<"R","u","n","n","i","n","g">>
st_Stopped  == <<"S","t","o","p","p","e","d">>
st_Starting == <<"S","t","a","r","t","i","n","g">>
t_name         == <<"{","n","a","m","e","}">>
t_project_name == <<"{","p","r","o","j","e","c","t","}","_","{","n","a","m","e","}">>
u_socket == <<"u","n","i","x",":","/","/","s">>

NoState == [has_network |-> FALSE, network |-> <<>>]

\* an instance as the API answers it (no lxd_project, no lxd_endpoint yet)
RawInstance(name, type, status, profiles) ==
    [name |-> name, type |-> type, status |-> status, architecture |-> n_arch,
     profiles |-> profiles, config |-> EmptyDict, expanded_config |-> EmptyDict,
     state |-> NoState, lxd_project |-> None, lxd_endpoint |-> None]

DefaultIgnore == << <<"l","o">> >>

Filters(status, projects) ==
    [status |-> status, type |-> <<s_container, s_vm>>, projects |-> projects,
     profiles |-> <<>>, ignore_interfaces |-> DefaultIgnore, prefer_ipv6 |-> FALSE,
     exclude_names |-> <<>>, exclude_projects |-> <<>>, tags |-> EmptyDict]

EndpointConfig(name, hostname_format, filters) ==
    [name |-> name, endpoint |-> u_socket, hostname_format |-> hostname_format,
     filters |-> filters]

NoAnswer == [kind |-> "fail", items |-> <<>>]

\* --- short runs: two endpoints, at most MaxInst instances in all

ShortPool ==
    { RawInstance(n_a,  s_container, st_Running,  <<s_default>>),
      RawInstance(n_a,  s_vm,        st_Stopped,  <<>>),
      RawInstance(n_a1, s_container, st_Running,  <<n_web>>),
      RawInstance(n_b,  s_container, st_Starting, <<s_default, n_web>>) }

\* where an instance lives: <<endpoint index, project>>
ShortSlots == { <<1, s_default>>, <<1, n_proj>>, <<2, s_default>> }

ShortItems == ShortSlots \X ShortPool

ShortLists == UNION { [1..n -> ShortItems] : n \in 0..MaxInst }

\* the instances of a list that live in a slot, in order
RECURSIVE InSlot(_, _)
InSlot(items, slot) ==
    IF items = <<>> THEN <<>>
    ELSE IF Head(items)[1] = slot THEN <<Head(items)[2]>> \o InSlot(Tail(items), slot)
    ELSE InSlot(Tail(items), slot)

ShortWorld(items) ==
    << [projects0 |-> NoAnswer, projects1 |-> NoAnswer,
        inst |-> [p \in {s_default, n_proj} |->
                     [ok |-> TRUE, items |-> InSlot(items, <<1, p>>)]]],
       [projects0 |-> NoAnswer, projects1 |-> NoAnswer,
        inst |-> [p \in {s_default} |->
                     [ok |-> TRUE, items |-> InSlot(items, <<2, s_default>>)]]] >>

\* <<hostname_format, filters.status>>
ShortVariants == { <<t_name, <<>>>>, <<t_name, <<s_running>>>>, <<t_project_name, <<>>>> }

ShortConfig(v) ==
    << EndpointConfig(n_e1, v[1], Filters(v[2], <<s_default, n_proj>>)),
       EndpointConfig(n_e2, v[1], Filters(v[2], <<s_default>>)) >>

\* --- long runs: one endpoint with three projects. p1 answers the instances
\* a, a-1, a-2, ... (MaxStream - 2 of them), p2 and p3 one instance a each.

LongProject(k) == <<"p">> \o IntToStr(k)

LongUrl(k) == <<"/","1",".","0">> \o s_projects_path \o LongProject(k)

LongName(k) == IF k = 0 THEN n_a ELSE n_a \o <<"-">> \o IntToStr(k)

LongWorld(last_status) ==
    << [projects0 |-> [kind |-> "list", items |-> [k \in 1..3 |-> LongUrl(k)]],
        projects1 |-> NoAnswer,
        inst |-> [p \in {LongProject(k) : k \in 1..3} |->
                     [ok |-> TRUE,
                      items |->
                          IF p = LongProject(1)
                          THEN [k \in 1..(MaxStream - 2) |->
                                   RawInstance(LongName(k - 1), s_container,
                                               st_Running, <<>>)]
                          ELSE << RawInstance(n_a, s_container,
                                      IF p = LongProject(3) THEN last_status
                                                            ELSE st_Running,
                                      <<>>) >>]]] >>

LongConfig == << EndpointConfig(n_e1, t_name, Filters(<<>>, <<s_all>>)) >>

Inputs ==
    { [config |-> ShortConfig(v), world |-> ShortWorld(l)] :
          v \in ShortVariants, l \in ShortLists }
    \cup { [config |-> LongConfig, world |-> LongWorld(st)] :
          st \in {st_Running, st_Stopped} }

Init ==
    /\ \E i \in Inputs : config = i.config /\ world = i.world
    /\ pc = "idle"
    /\ ep = 0
    /\ instances = <<>>
    /\ cur = NoCur
    /\ hostvars = EmptyDict
    /\ groups = EmptyDict
    /\ assigned = <<>>
    /\ fetched = <<>>
    /\ inventory = [hostvars |-> EmptyDict, groups |-> EmptyDict]
    /\ call = NoCall
    /\ ret = NoCall

Spec == Init /\ [][Next]_vars

----------------------------------------------------------------------------
(* Properties of the hostname resolver and of the assembler                *)

N == Len(assigned)

\* the hostnames given to the included instances before the i-th
Before(i) == {assigned[j].hostname : j \in 1..(i - 1)}

\* the smallest element of a non-empty set of numbers
Min(S) == CHOOSE k \in S : \A m \in S : k <= m

\* the hosts of a group of a groups dict (none when the group is absent)
HostsOf(g, name) == IF name \in DOMAIN g THEN Range(g[name]) ELSE {}

NoRepeat(l) == \A i, j \in 1..Len(l) : i # j => l[i] # l[j]

\* the i-th included instance found its candidate and the 100 suffixes taken
Exhausted(i) ==
    /\ assigned[i].original \in Before(i)
    /\ \A k \in 1..MaxConflicts : Suffixed(assigned[i].original, k) \in Before(i)

AtLoopHead == pc \in {"instances", "endpoints", "done"}

\* C1 (as claimed): in one generation no two included instances are given
\* the same hostname, hostvars holds exactly one record per included
\* instance and no hostname occurs twice in group `all`.
C1_HostnamesUnique ==
    /\ \A i, j \in 1..N : i # j => assigned[i].hostname # assigned[j].hostname
    /\ AtLoopHead /\ N > 0 =>
          /\ Cardinality(DOMAIN hostvars) = N
          /\ NoRepeat(groups[g_all])

\* C1 (amended): two included instances are given the same hostname only
\* when the later one found its candidate h and all of h-1 .. h-100 already
\* keys of hostvars: it is then given h-100 once more. As long as no
\* instance has exhausted the suffixes, hostvars holds exactly one record
\* per included instance and no hostname occurs twice in group `all`.
C1_UniqueUnlessExhausted ==
    /\ \A j \in 1..N : \A i \in 1..(j - 1) :
          assigned[i].hostname = assigned[j].hostname =>
              /\ Exhausted(j)
              /\ assigned[j].hostname = Suffixed(assigned[j].original, MaxConflicts)
    /\ AtLoopHead /\ N > 0 /\ (\A j \in 1..N : ~assigned[j].collided) =>
          /\ Cardinality(DOMAIN hostvars) = N
          /\ NoRepeat(groups[g_all])
          /\ Len(groups[g_all]) = N

\* C1 witness: a finished generation in which two included instances had the
\* same formatted hostname and every included instance has its own.
C1_Witness ==
    /\ pc = "done"
    /\ \E i, j \in 1..N : i < j /\ assigned[i].original = assigned[j].original
    /\ \A i, j \in 1..N : i # j => assigned[i].hostname # assigned[j].hostname
    /\ Cardinality(DOMAIN inventory.hostvars) = N

\* the suffix numbers k for which h-k is not a hostname given before the i-th
FreeSuffixes(i, upto) ==
    {k \in 1..upto : Suffixed(assigned[i].original, k) \notin Before(i)}

JustAdded == pc = "instances" /\ N > 0

\* C2 (as claimed): an included instance whose formatted hostname h is
\* already a key is given h-k for the smallest k >= 1 such that h-k is not
\* yet a key; otherwise it keeps h. (Stated of the instance just added; the
\* keys of hostvars are the hostnames given before.)
C2_SmallestFreeSuffix ==
    JustAdded =>
        /\ DOMAIN hostvars = Before(N + 1)
        /\ assigned[N].hostname =
              IF assigned[N].original \notin Before(N) THEN assigned[N].original
              ELSE Suffixed(assigned[N].original, Min(FreeSuffixes(N, N)))

\* C2 (amended): an included instance whose formatted hostname h is already
\* a key is given h-k for the smallest k in 1..100 such that h-k is not yet
\* a key, and h-100 when h-1 .. h-100 are all keys; otherwise it keeps h, so
\* the instance processed first keeps the bare name.
C2_SmallestFreeSuffixUpTo100 ==
    JustAdded =>
        /\ DOMAIN hostvars = Before(N + 1)
        /\ assigned[N].hostname =
              IF assigned[N].original \notin Before(N) THEN assigned[N].original
              ELSE IF FreeSuffixes(N, MaxConflicts) = {}
              THEN Suffixed(assigned[N].original, MaxConflicts)
              ELSE Suffixed(assigned[N].original, Min(FreeSuffixes(N, MaxConflicts)))

\* C2 witness: two instances named a of different projects, under the
\* template {name}, have been given a and a-1.
C2_Witness ==
    /\ JustAdded
    /\ \E i, j \in 1..N :
          /\ i < j
          /\ assigned[i].instance.name = n_a /\ assigned[j].instance.name = n_a
          /\ assigned[i].instance.lxd_project # assigned[j].instance.lxd_project
          /\ config[assigned[i].ep].hostname_format = t_name
          /\ config[assigned[j].ep].hostname_format = t_name
          /\ assigned[i].hostname = n_a
          /\ assigned[j].hostname = n_a1

\* what holds of the conflict loop in every state
ConflictLoopBounded ==
    /\ pc \in {"conflict", "add"} =>
          /\ cur.counter \in 1..(MaxConflicts + 1)
          /\ cur.formatted_hostname =
                IF cur.counter = 1 THEN cur.original_hostname
                ELSE Suffixed(cur.original_hostname, cur.counter - 1)
    /\ pc = "conflict" => cur.counter <= MaxConflicts
    /\ pc = "add" => cur.counter = MaxConflicts + 1
    /\ \A i \in 1..N :
          /\ assigned[i].counter \in 1..(MaxConflicts + 1)
          /\ assigned[i].collided =>
                /\ assigned[i].counter = MaxConflicts + 1
                /\ assigned[i].hostname = Suffixed(assigned[i].original, MaxConflicts)

\* a step taken at the test of the conflict loop either tries the next
\* suffix, the counter growing by one, or leaves the loop: by `break` with
\* the 100th suffix, or because the candidate is no key, the host being added
ConflictLoopStep ==
    pc = "conflict" =>
        \/ /\ pc' = "conflict"
           /\ cur'.counter = cur.counter + 1
           /\ cur'.counter <= MaxConflicts
        \/ /\ pc' = "add"
           /\ cur'.counter = MaxConflicts + 1
           /\ cur'.formatted_hostname = Suffixed(cur.original_hostname, MaxConflicts)
        \/ /\ pc' = "instances"
           /\ cur.formatted_hostname \notin DOMAIN hostvars
           /\ N' = N + 1

\* C3: the conflict loop always ends, after at most 100 suffixes. At its
\* test the counter is at most 100 and grows with every iteration; the
\* candidate is the formatted hostname or the one with the last suffix
\* tried; the loop is left by `break` only with the candidate h-100, which
\* is accepted whether or not it is a key; a hostname given while it was a
\* key is always such an h-100.
C3_ConflictLoopTerminates ==
    /\ []ConflictLoopBounded
    /\ [][ConflictLoopStep]_vars
    /\ [][pc = "add" => pc' = "instances" /\ N' = N + 1]_vars

\* C3 witness: an instance has exhausted the 100 suffixes and was given
\* h-100 although h-100 was a key.
C3_Witness ==
    \E i \in 1..N :
        /\ assigned[i].collided
        /\ assigned[i].counter = MaxConflicts + 1
        /\ assigned[i].hostname = Suffixed(assigned[i].original, MaxConflicts)
        /\ assigned[i].hostname \in Before(i)

\* the four status groups, by status
StatusNames == {s_running, s_stopped, s_frozen, s_error}

GroupOfStatus(s) ==
    IF s = s_running THEN g_running
    ELSE IF s = s_stopped THEN g_stopped
    ELSE IF s = s_frozen THEN g_frozen
    ELSE g_error

InFinalGroup(name, h) == h \in HostsOf(inventory.groups, name)

\* C4 (as claimed): in the final inventory the hostname of every included
\* instance is in lxd_<s> exactly when the lower-cased status of the
\* instance is s (so in at most one of the four, and in none when the
\* status is not one of the four).
C4_StatusGroupsMatch ==
    pc = "done" =>
        \A i \in 1..N : \A s \in StatusNames :
            InFinalGroup(GroupOfStatus(s), assigned[i].hostname)
                <=> StrLower(assigned[i].instance.status) = s

\* C4 (amended): in the final inventory a hostname is in lxd_<s> exactly
\* when some included instance given that hostname has lower-cased status
\* s. For a hostname given to one instance only (every hostname, unless the
\* 100 suffixes were exhausted) the memberships are therefore mutually
\* exclusive and match the status of that instance, and there is none when
\* that status is not one of the four.
C4_StatusGroupsMatchPerHostname ==
    pc = "done" =>
        /\ \A h \in DOMAIN inventory.hostvars \cup Before(N + 1) :
           \A s \in StatusNames :
              InFinalGroup(GroupOfStatus(s), h)
                  <=> \E i \in 1..N : /\ assigned[i].hostname = h
                                      /\ StrLower(assigned[i].instance.status) = s
        /\ \A i \in 1..N :
              (\A j \in 1..N : j # i => assigned[j].hostname # assigned[i].hostname)
              => \A s \in StatusNames :
                    InFinalGroup(GroupOfStatus(s), assigned[i].hostname)
                        <=> StrLower(assigned[i].instance.status) = s

\* C4 witness: a final inventory with a running host, a stopped host and a
\* host whose status is none of the four.
C4_Witness ==
    /\ pc = "done"
    /\ \E i, j, k \in 1..N :
          /\ StrLower(assigned[i].instance.status) = s_running
          /\ InFinalGroup(g_running, assigned[i].hostname)
          /\ StrLower(assigned[j].instance.status) = s_stopped
          /\ InFinalGroup(g_stopped, assigned[j].hostname)
          /\ StrLower(assigned[k].instance.status) \notin StatusNames
          /\ \A s \in StatusNames : ~InFinalGroup(GroupOfStatus(s), assigned[k].hostname)

----------------------------------------------------------------------------
(* Direct calls of one method. `call` holds the method and its arguments,  *)
(* `ret` what it returned; pc is "call" before and "return" after.         *)

\* the state before a call: nothing of a run exists
CallInit(calls) ==
    /\ call \in calls
    /\ pc = "call"
    /\ ret = NoCall
    /\ config = <<>>
    /\ world = <<>>
    /\ ep = 0
    /\ instances = <<>>
    /\ cur = NoCur
    /\ hostvars = EmptyDict
    /\ groups = EmptyDict
    /\ assigned = <<>>
    /\ fetched = <<>>
    /\ inventory = [hostvars |-> EmptyDict, groups |-> EmptyDict]

Return(value) ==
    /\ pc' = "return"
    /\ ret' = value
    /\ UNCHANGED <<config, world, ep, instances, cur, hostvars, groups, assigned,
                   fetched, inventory, call>>

CallFilterInstance ==
    /\ pc = "call"
    /\ call.fn = "_filter_instance"
    /\ Return(FilterInstance(call.instance, call.endpoint_config))

\* the sequences over S of length at most n
SeqsUpTo(S, n) == UNION { [1..k -> S] : k \in 0..n }

\* the dicts with keys among K and values in V
Dicts(K, V) == UNION { [D -> V] : D \in SUBSET K }

MaxStatusList == 2   \* entries of filters.status, in the calls of the filter

n_db   == <<"d","b">>
k_role == <<"u",".","r">>
k_env  == <<"u",".","e">>

TagSpec(value, negate) == [isdict |-> TRUE, value |-> value, negate |-> negate]

\* entries as a configuration file gives them: 'running', ' Stopped', 'all'
FilterStatusEntries == { s_running, <<" ">> \o st_Stopped, s_all }

FilterInstances ==
    { [RawInstance(name, type, status, profiles) EXCEPT !.expanded_config = ec] :
          name \in {n_a, n_b}, type \in {s_container, s_vm},
          status \in {st_Running, st_Stopped},
          profiles \in { <<s_default>>, <<s_default, n_web>> },
          ec \in Dicts({k_role}, {n_web}) }

FilterFilters ==
    { [Filters(status, <<s_default>>) EXCEPT
          !.type = type, !.profiles = profiles, !.exclude_names = exclude_names,
          !.tags = tags] :
          status \in SeqsUpTo(FilterStatusEntries, MaxStatusList),
          type \in { <<>>, <<s_container>>, <<s_all>> },
          profiles \in { <<>>, <<n_db>>, <<n_db, n_web>> },
          exclude_names \in { <<>>, <<n_a>> },
          tags \in Dicts({k_role}, {TagSpec(n_web, FALSE)}) }

FilterCalls ==
    { [fn |-> "_filter_instance", instance |-> i,
       endpoint_config |-> EndpointConfig(n_e1, t_name, f)] :
          i \in FilterInstances, f \in FilterFilters }

InitFilter == CallInit(FilterCalls)

NextFilter == CallFilterInstance

SpecFilter == InitFilter /\ [][NextFilter]_vars

\* --- the five predicates of _filter_instance, for a returned call

Returned(fn) == pc = "return" /\ call.fn = fn

CallFilters == call.endpoint_config.filters

\* the status test as the claim words it: against filters.status as it is
StatusHolds_asis ==
    \/ CallFilters.status = <<>>
    \/ InList(s_all, CallFilters.status)
    \/ InList(StrLower(call.instance.status), CallFilters.status)

\* the status test against the lower-cased, stripped entries
NormalisedStatuses ==
    { StrStrip(StrLower(CallFilters.status[i])) : i \in 1..Len(CallFilters.status) }

StatusHolds ==
    \/ NormalisedStatuses = {}
    \/ s_all \in NormalisedStatuses
    \/ StrLower(call.instance.status) \in NormalisedStatuses

TypeHolds ==
    \/ CallFilters.type = <<>>
    \/ InList(s_all, CallFilters.type)
    \/ InList(call.instance.type, CallFilters.type)

ProfilesHold ==
    \/ CallFilters.profiles = <<>>
    \/ Range(CallFilters.profiles) \cap Range(call.instance.profiles) # {}

NoPatternMatches == ~ShouldExcludeInstance(call.instance, CallFilters.exclude_names)

TagsHold ==
    \A k \in DOMAIN CallFilters.tags : TagPasses(call.instance, k, CallFilters.tags[k])

\* C5 as stated: _filter_instance returns true exactly when the five
\* predicates hold, the status predicate being that the lower-cased status
\* is in filters.status, or that filters.status is empty or contains 'all'.
C5_FilterIsConjunction ==
    Returned("_filter_instance") =>
        (ret <=> StatusHolds_asis /\ TypeHolds /\ ProfilesHold /\ NoPatternMatches
                 /\ TagsHold)

\* C5 amended: _filter_instance returns true exactly when the five
\* predicates hold, the status predicate being that the lower-cased status
\* is among the lower-cased and stripped entries of filters.status, or that
\* there is no entry, or that one of these normalised entries is 'all'.
C5_FilterIsConjunctionNormalised ==
    Returned("_filter_instance") =>
        (ret <=> StatusHolds /\ TypeHolds /\ ProfilesHold /\ NoPatternMatches
                 /\ TagsHold)

\* C5 witness: an instance returned as included by a filter with an entry
\* ' Stopped', a profile filter of two, a name pattern and a tag predicate.
C5_Witness ==
    /\ Returned("_filter_instance")
    /\ ret = TRUE
    /\ CallFilters.status = << s_running, <<" ">> \o st_Stopped >>
    /\ call.instance.status = st_Stopped
    /\ CallFilters.profiles = <<n_db, n_web>>
    /\ CallFilters.exclude_names # <<>>
    /\ DOMAIN CallFilters.tags # {}

----------------------------------------------------------------------------
(* Direct calls of _should_exclude_instance and _should_exclude_project    *)

CallShouldExcludeInstance ==
    /\ pc = "call"
    /\ call.fn = "_should_exclude_instance"
    /\ Return(ShouldExcludeInstance(call.instance, call.exclude_names))

CallShouldExcludeProject ==
    /\ pc = "call"
    /\ call.fn = "_should_exclude_project"
    /\ Return(ShouldExcludeProject(call.project_name, call.exclude_projects))

MaxPatterns == 2   \* patterns of an exclude_names or exclude_projects list

n_vm1 == <<"v","m","1">>
n_vm2 == <<"v","m","2">>
n_dev == <<"d","e","v">>

p_proj_vm1 == n_proj \o <<"/">> \o n_vm1

\* 'regex:(' and 'regex:proj/(' do not compile
InvalidNamePatterns == { s_regex \o <<"(">>, s_regex \o n_proj \o <<"/","(">> }

\* vm1, proj/vm1, ' vm2 ', regex:.*2, regex:proj/vm., the empty pattern
NamePatterns ==
    { n_vm1, p_proj_vm1, <<" ">> \o n_vm2 \o <<" ">>, s_regex \o <<".","*","2">>,
      s_regex \o n_proj \o <<"/","v","m",".">>, <<>> }
    \cup InvalidNamePatterns

InvalidProjectPatterns == { s_regex \o <<"[">> }

\* proj, ' dev ', regex:d, regex:.*j$, the empty pattern
ProjectPatterns ==
    { n_proj, <<" ">> \o n_dev \o <<" ">>, s_regex \o <<"d">>,
      s_regex \o <<".","*","j","$">>, <<>> }
    \cup InvalidProjectPatterns

ExcludeInstances ==
    { [RawInstance(name, s_container, st_Running, <<>>) EXCEPT !.lxd_project = p] :
          name \in {n_vm1, n_vm2}, p \in {None, n_proj, s_default, n_dev} }

ExcludeCalls ==
    { [fn |-> "_should_exclude_instance", instance |-> i, exclude_names |-> l] :
          i \in ExcludeInstances, l \in SeqsUpTo(NamePatterns, MaxPatterns) }
    \cup
    { [fn |-> "_should_exclude_project", project_name |-> p, exclude_projects |-> l] :
          p \in {n_proj, s_default, n_dev}, l \in SeqsUpTo(ProjectPatterns, MaxPatterns) }

InitExclude == CallInit(ExcludeCalls)

NextExclude ==
    \/ CallShouldExcludeInstance
    \/ CallShouldExcludeProject

SpecExclude == InitExclude /\ [][NextExclude]_vars

\* C6: with patterns `proj/vm1` and `vm1` only, an instance is excluded
\* exactly when some pattern is `vm1` and the instance is named vm1, or some
\* pattern is `proj/vm1` and the instance is named vm1 in project proj; so
\* `proj/vm1` alone excludes vm1 in proj only, `vm1` alone excludes vm1 in
\* every project, and neither excludes an instance of another name.
C6_ProjectScopedPattern ==
    ( /\ Returned("_should_exclude_instance")
      /\ Range(call.exclude_names) \subseteq {n_vm1, p_proj_vm1} )
    => ( ret <=> /\ call.instance.name = n_vm1
                 /\ \/ n_vm1 \in Range(call.exclude_names)
                    \/ /\ p_proj_vm1 \in Range(call.exclude_names)
                       /\ call.instance.lxd_project = n_proj )

\* C6 witness: `proj/vm1` alone has not excluded vm1 of project dev.
C6_Witness ==
    /\ Returned("_should_exclude_instance")
    /\ call.exclude_names = <<p_proj_vm1>>
    /\ call.instance.name = n_vm1
    /\ call.instance.lxd_project = n_dev
    /\ ret = FALSE

\* the list without its i-th pattern
Without(l, i) == SubSeq(l, 1, i - 1) \o SubSeq(l, i + 1, Len(l))

\* the list in the order f
Reordered(l, f) == [i \in 1..Len(l) |-> l[f[i]]]

\* the decision of the called method on another list
Decision(l) ==
    IF call.fn = "_should_exclude_instance"
    THEN ShouldExcludeInstance(call.instance, l)
    ELSE ShouldExcludeProject(call.project_name, l)

CallPatterns ==
    IF call.fn = "_should_exclude_instance" THEN call.exclude_names
                                            ELSE call.exclude_projects

\* C8: the decision on a list is the disjunction of the decisions on its
\* patterns taken alone; a pattern that does not compile excludes nothing
\* and the decision is that of the list without it; the decision is the
\* same for every order of the list. For both exclusion methods.
C8_DecisionIsDisjunction ==
    pc = "return" /\ call.fn \in {"_should_exclude_instance", "_should_exclude_project"}
    => LET l == CallPatterns
       IN  /\ ret <=> \E i \in 1..Len(l) : Decision(<<l[i]>>)
           /\ \A i \in 1..Len(l) :
                 l[i] \in InvalidNamePatterns \cup InvalidProjectPatterns
                 => /\ ~Decision(<<l[i]>>)
                    /\ ret <=> Decision(Without(l, i))
           /\ \A f \in Permutations(1..Len(l)) : ret <=> Decision(Reordered(l, f))

\* C8 witness: vm1 excluded by the pattern after a regex that does not
\* compile, and a project excluded likewise.
C8_Witness ==
    \/ /\ Returned("_should_exclude_instance")
       /\ call.exclude_names = << s_regex \o <<"(">>, n_vm1 >>
       /\ call.instance.name = n_vm1
       /\ ret = TRUE
    \/ /\ Returned("_should_exclude_project")
       /\ call.exclude_projects = << s_regex \o <<"[">>, n_proj >>
       /\ call.project_name = n_proj
       /\ ret = TRUE

----------------------------------------------------------------------------
(* Direct calls of _match_tag_filters                                      *)

CallMatchTagFilters ==
    /\ pc = "call"
    /\ call.fn = "_match_tag_filters"
    /\ Return(MatchTagFilters(call.instance, call.tag_filters))

k_role_neq == k_role \o s_neq

\* instances with user.r and user.e in config and user.r in expanded_config
TagInstances ==
    { [RawInstance(n_a, s_container, st_Running, <<>>) EXCEPT
          !.config = c, !.expanded_config = ec] :
          c \in Dicts({k_role, k_env}, {n_web, n_db}),
          ec \in Dicts({k_role}, {n_web, n_db}) }

\* filters in the {value, negate} form, and in the plain form of a YAML
\* mapping (`key: value`, `key!=: value`)
TagFilters ==
    Dicts({k_role, k_env}, { TagSpec(v, n) : v \in {None, n_web}, n \in BOOLEAN })
    \cup Dicts({k_role, k_role_neq},
               { [isdict |-> FALSE, value |-> v, negate |-> FALSE] : v \in {None, n_web} })

TagCalls ==
    { [fn |-> "_match_tag_filters", instance |-> i, tag_filters |-> t] :
          i \in TagInstances, t \in TagFilters }

InitTags == CallInit(TagCalls)

NextTags == CallMatchTagFilters

SpecTags == InitTags /\ [][NextTags]_vars

\* the predicate [key, value, negate] that a configured key stands for
PredicateOf(k, filter_spec) ==
    IF filter_spec.isdict
    THEN [key |-> k, value |-> filter_spec.value, negate |-> filter_spec.negate]
    ELSE IF Len(k) >= 2 /\ SubSeq(k, Len(k) - 1, Len(k)) = s_neq
    THEN [key |-> SubSeq(k, 1, Len(k) - 2), value |-> filter_spec.value,
          negate |-> TRUE]
    ELSE [key |-> k, value |-> filter_spec.value, negate |-> FALSE]

\* the value of a key: that of expanded_config, else that of config, else none
Lookup(instance, k) ==
    IF k \in DOMAIN instance.expanded_config THEN instance.expanded_config[k]
    ELSE IF k \in DOMAIN instance.config THEN instance.config[k]
    ELSE None

HasKey(instance, k) ==
    k \in DOMAIN instance.expanded_config \/ k \in DOMAIN instance.config

PredicatePasses(instance, p) ==
    IF p.value = None
    THEN IF p.negate THEN ~HasKey(instance, p.key) ELSE HasKey(instance, p.key)
    ELSE IF p.negate THEN Lookup(instance, p.key) # p.value
                     ELSE Lookup(instance, p.key) = p.value

\* C7: _match_tag_filters returns true exactly when every configured key
\* passes: with no expected value, by the presence (negate: the absence) of
\* the key in expanded_config or config; with an expected string, by the
\* equality (negate: the inequality) of that string and the value looked up
\* in expanded_config first and config second, a missing key being unequal.
C7_TagPredicates ==
    Returned("_match_tag_filters") =>
        (ret <=> \A k \in DOMAIN call.tag_filters :
                     PredicatePasses(call.instance,
                                     PredicateOf(k, call.tag_filters[k])))

\* C7 witness: included with user.r = web wanted, web in expanded_config and
\* db in config, and user.e wanted absent and absent from both.
C7_Witness ==
    /\ Returned("_match_tag_filters")
    /\ ret = TRUE
    /\ DOMAIN call.tag_filters = {k_role, k_env}
    /\ call.tag_filters[k_role] = TagSpec(n_web, FALSE)
    /\ call.tag_filters[k_env] = TagSpec(None, TRUE)
    /\ DOMAIN call.instance.expanded_config = {k_role}
    /\ call.instance.expanded_config[k_role] = n_web
    /\ DOMAIN call.instance.config = {k_role}
    /\ call.instance.config[k_role] = n_db

----------------------------------------------------------------------------
(* Direct calls of _get_instance_ips                                       *)

CallGetInstanceIps ==
    /\ pc = "call"
    /\ call.fn = "_get_instance_ips"
    /\ Return(GetInstanceIps(call.instance, call.endpoint_config))

MaxAddrs == 3   \* addresses of eth0

i_eth0 == <<"e","t","h","0">>
i_lo   == <<"l","o">>
a_fd00_1 == <<"f","d","0","0",":",":","1">>
a_fe80_1 == <<"f","e","8","0",":",":","1">>
a_10_1   == <<"1","0",".","1">>
a_10_2   == <<"1","0",".","2">>
s_link   == <<"l","i","n","k">>

\* two global inet addresses, a global and a link inet6 address, and a
\* global inet entry whose address is the empty string
AddrPool ==
    { [family |-> s_inet,  scope |-> s_global, address |-> a_10_1],
      [family |-> s_inet,  scope |-> s_global, address |-> a_10_2],
      [family |-> s_inet6, scope |-> s_global, address |-> a_fd00_1],
      [family |-> s_inet6, scope |-> s_link,   address |-> a_fe80_1],
      [family |-> s_inet,  scope |-> s_global, address |-> <<>>] }

\* an interface with at most n addresses, or one whose data is malformed
Interfaces(name, n) ==
    { [name |-> name, data_ok |-> TRUE, addresses |-> l] :
          l \in SeqsUpTo(AddrPool, n) }
    \cup { [name |-> name, data_ok |-> FALSE, addresses |-> <<>>] }

\* state['network']: eth0 and lo (with at most one address), one of them,
\* or none, in either order
Networks ==
    { <<>> }
    \cup { <<x>> : x \in Interfaces(i_eth0, MaxAddrs) \cup Interfaces(i_lo, 1) }
    \cup { <<x, y>> : x \in Interfaces(i_eth0, MaxAddrs), y \in Interfaces(i_lo, 1) }
    \cup { <<y, x>> : x \in Interfaces(i_eth0, MaxAddrs), y \in Interfaces(i_lo, 1) }

IpStates == { NoState } \cup { [has_network |-> TRUE, network |-> n] : n \in Networks }

IpCalls ==
    { [fn |-> "_get_instance_ips",
       instance |-> [RawInstance(n_a, s_container, st_Running, <<>>)
                        EXCEPT !.state = st],
       endpoint_config |->
           EndpointConfig(n_e1, t_name,
               [Filters(<<>>, <<s_default>>) EXCEPT
                   !.ignore_interfaces = ign, !.prefer_ipv6 = p6])] :
          st \in IpStates, ign \in { <<>>, DefaultIgnore }, p6 \in BOOLEAN }

InitIps == CallInit(IpCalls)

NextIps == CallGetInstanceIps

SpecIps == InitIps /\ [][NextIps]_vars

\* every address entry of the network, in the order found, with its interface
Entries ==
    LET network == call.instance.state.network
    IN  Concat([i \in 1..Len(network) |->
                   [j \in 1..Len(network[i].addresses) |->
                       [interface |-> network[i].name,
                        addr |-> network[i].addresses[j]]]])

Ignored(e) == InList(e.interface, CallFilters.ignore_interfaces)

\* an entry that may be used: global, with an address, on a kept interface
Eligible(e) ==
    /\ ~Ignored(e)
    /\ e.addr.scope = s_global
    /\ e.addr.address # <<>>

\* the eligible addresses of one family, in first-seen order
Bucket(family) ==
    LET es == SelectSeq(Entries, LAMBDA e : Eligible(e) /\ e.addr.family = family)
    IN  [i \in 1..Len(es) |-> es[i].addr.address]

Preferred == IF CallFilters.prefer_ipv6 THEN Bucket(s_inet6) ELSE Bucket(s_inet)
Other     == IF CallFilters.prefer_ipv6 THEN Bucket(s_inet) ELSE Bucket(s_inet6)

OnlyFd00OnEth0 ==
    /\ call.instance.state =
           [has_network |-> TRUE,
            network |-> << [name |-> i_eth0, data_ok |-> TRUE,
                            addresses |-> << [family |-> s_inet6, scope |-> s_global,
                                              address |-> a_fd00_1] >>] >>]
    /\ ~CallFilters.prefer_ipv6

\* C9: the primary address is the first of the preferred family (inet6 if
\* prefer_ipv6, else inet), else the first of the other family, and is null
\* exactly when both families are empty; with only the global inet6 address
\* fd00::1 on eth0 and prefer_ipv6 false, primary is fd00::1 and the list
\* is [fd00::1].
C9_PrimaryAddress ==
    Returned("_get_instance_ips") =>
        /\ ret.primary = IF Preferred # <<>> THEN Preferred[1]
                         ELSE IF Other # <<>> THEN Other[1]
                         ELSE None
        /\ ret.primary = None <=> (Preferred = <<>> /\ Other = <<>>)
        /\ OnlyFd00OnEth0 => ret = [primary |-> a_fd00_1, all_ips |-> <<a_fd00_1>>]

\* C9 witness: the call with only fd00::1 on eth0 and prefer_ipv6 false has
\* returned the inet6 address as primary.
C9_Witness ==
    /\ Returned("_get_instance_ips")
    /\ OnlyFd00OnEth0
    /\ ret.primary = a_fd00_1

\* C10: the list returned is the global inet or inet6 addresses of the
\* interfaces not ignored, those of the preferred family in first-seen
\* order and then those of the other family in first-seen order; the
\* address of an entry on an ignored interface or of another scope is in
\* the list, or primary, only if an eligible entry has the same address.
C10_OrderedAddresses ==
    Returned("_get_instance_ips") =>
        /\ ret.all_ips = Preferred \o Other
        /\ \A i \in 1..Len(Entries) :
              LET e == Entries[i]
              IN  (/\ Ignored(e) \/ e.addr.scope # s_global
                   /\ ~\E j \in 1..Len(Entries) :
                         /\ Eligible(Entries[j])
                         /\ Entries[j].addr.address = e.addr.address)
                  => /\ ~InList(e.addr.address, ret.all_ips)
                     /\ ret.primary # e.addr.address

\* C10 witness: a list of both families, with a global address of the
\* ignored lo and a link address of eth0 left out.
C10_Witness ==
    /\ Returned("_get_instance_ips")
    /\ Len(Preferred) >= 1 /\ Len(Other) >= 1
    /\ ret.all_ips = Preferred \o Other
    /\ \E i, j \in 1..Len(Entries) :
          /\ Ignored(Entries[i])
          /\ Entries[i].addr.scope = s_global
          /\ Entries[i].addr.address # <<>>
          /\ ~InList(Entries[i].addr.address, ret.all_ips)
          /\ ~Ignored(Entries[j])
          /\ Entries[j].addr.scope = s_link
          /\ ~InList(Entries[j].addr.address, ret.all_ips)

----------------------------------------------------------------------------
(* Properties of the groups of the final inventory                         *)

\* the groups an included instance belongs to, from its own fields and the
\* name of the endpoint it was answered by
GroupsOfAssigned(a) ==
    { g_all, g_endpoint(config[a.ep].name), g_project(InstanceProject(a.instance)) }
    \cup (IF a.instance.type = s_container THEN {g_containers} ELSE {})
    \cup (IF a.instance.type = s_vm THEN {g_vms} ELSE {})
    \cup { g_profile(p) : p \in Range(a.instance.profiles) }

\* C11: once an instance has passed the filter and been added, its hostname
\* is in `all`, in its type group, in lxd_endpoint_<endpoint name>, in
\* lxd_profile_<p> for each of its profiles and in lxd_project_<project>,
\* in the groups being built and, at the end, in the final inventory.
C11_GroupMembership ==
    \A i \in 1..N :
        \A name \in GroupsOfAssigned(assigned[i]) :
            /\ assigned[i].hostname \in HostsOf(groups, name)
            /\ pc = "done" => InFinalGroup(name, assigned[i].hostname)

\* C11 witness: a final inventory with a container of two profiles in
\* project proj and a virtual machine answered by the second endpoint.
C11_Witness ==
    /\ pc = "done"
    /\ \E i, j \in 1..N :
          /\ assigned[i].instance.type = s_container
          /\ Len(assigned[i].instance.profiles) = 2
          /\ InstanceProject(assigned[i].instance) = n_proj
          /\ InFinalGroup(g_profile(n_web), assigned[i].hostname)
          /\ InFinalGroup(g_project(n_proj), assigned[i].hostname)
          /\ assigned[j].instance.type = s_vm
          /\ assigned[j].ep = 2
          /\ InFinalGroup(g_vms, assigned[j].hostname)
          /\ InFinalGroup(g_endpoint(n_e2), assigned[j].hostname)

\* the groups that some included instance was added to
ReceivedHost(name) ==
    \E i \in 1..N :
        \/ name \in GroupsOfAssigned(assigned[i])
        \/ /\ StrLower(assigned[i].instance.status) \in StatusNames
           /\ name = GroupOfStatus(StrLower(assigned[i].instance.status))

EndpointGroups == { g_endpoint(config[e].name) : e \in 1..Len(config) }

\* C12: in the final inventory every group present has a non-empty list of
\* hosts, and a static group or an endpoint group is present exactly when
\* some included instance was added to it.
C12_NoEmptyGroups ==
    pc = "done" =>
        /\ \A name \in DOMAIN inventory.groups : inventory.groups[name] # <<>>
        /\ \A name \in StaticGroups \cup EndpointGroups :
              name \in DOMAIN inventory.groups <=> ReceivedHost(name)

\* C12 witness: a final inventory with hosts, without lxd_vms, without
\* lxd_stopped and without the group of the second endpoint, which were
\* created and received no host.
C12_Witness ==
    /\ pc = "done"
    /\ N >= 1
    /\ g_all \in DOMAIN inventory.groups
    /\ {g_vms, g_stopped, g_endpoint(n_e2)} \subseteq DOMAIN groups
    /\ {g_vms, g_stopped, g_endpoint(n_e2)} \cap DOMAIN inventory.groups = {}

----------------------------------------------------------------------------
(* Configuration resolver                                                  *)
(* args is the argparse namespace: an option is None when not given, a     *)
(* flag is a boolean; LXDInventory() without args reads every option as    *)
(* not given. A dict of the YAML file is a function on the keys it has; a  *)
(* filter value is [islist, v]: a list of strings, or one string.          *)

\* s.split(c)
RECURSIVE StrSplit(_, _)
StrSplit(s, c) ==
    IF HasChar(s, c)
    THEN <<SplitFirst(s, c)[1]>> \o StrSplit(SplitFirst(s, c)[2], c)
    ELSE <<s>>

\* s.split(sub, 1) of a string that contains sub
SplitFirstSub(s, sub) ==
    LET i == CHOOSE k \in 1..(Len(s) - Len(sub) + 1) :
                 /\ SubSeq(s, k, k + Len(sub) - 1) = sub
                 /\ \A j \in 1..(k - 1) : SubSeq(s, j, j + Len(sub) - 1) # sub
    IN  <<SubSeq(s, 1, i - 1), SubSeq(s, i + Len(sub), Len(s))>>

\* d[k] = v
DictPut(d, k, v) == [x \in DOMAIN d \cup {k} |-> IF x = k THEN v ELSE d[x]]

\* `self.args and self.args.<option>`: given and not the empty string
ArgGiven(v) == v # None /\ v # <<>>

\* [x.strip() for x in option.split(',')]
CliList(v) == [i \in 1..Len(StrSplit(v, ",")) |-> StrStrip(StrSplit(v, ",")[i])]

\* value if isinstance(value, list) else value.split(',')
AsList(x) == IF x.islist THEN x.v ELSE StrSplit(x.v, ",")

\* type_map.get(t, t)
TypeMap(t) ==
    IF t = <<"v","m">> THEN s_vm
    ELSE IF t = <<"l","x","c">> THEN s_container
    ELSE t

\* the body of the loop of _parse_tag_filters; parsed is the dict so far
ParseTagFilter(parsed, raw) ==
    LET tag_filter == StrStrip(raw)
    IN  IF tag_filter = <<>> THEN parsed
        ELSE IF Contains(tag_filter, s_neq)
        THEN DictPut(parsed, StrStrip(SplitFirstSub(tag_filter, s_neq)[1]),
                     [isdict |-> TRUE,
                      value |-> StrStrip(SplitFirstSub(tag_filter, s_neq)[2]),
                      negate |-> TRUE])
        ELSE IF HasChar(tag_filter, "=")
        THEN DictPut(parsed, StrStrip(SplitFirst(tag_filter, "=")[1]),
                     [isdict |-> TRUE,
                      value |-> StrStrip(SplitFirst(tag_filter, "=")[2]),
                      negate |-> FALSE])
        ELSE DictPut(parsed, tag_filter,
                     [isdict |-> TRUE, value |-> None, negate |-> FALSE])

RECURSIVE ParseTagFiltersFrom(_, _)
ParseTagFiltersFrom(parsed, tag_list) ==
    IF tag_list = <<>> THEN parsed
    ELSE ParseTagFiltersFrom(ParseTagFilter(parsed, Head(tag_list)), Tail(tag_list))

ParseTagFilters(tag_list) == ParseTagFiltersFrom(EmptyDict, tag_list)

BuiltinStatus == <<s_running, s_stopped, s_frozen, s_error>>
BuiltinType   == <<s_container, s_vm>>
BuiltinIgnore ==
    << <<"l","o">>, <<"d","o","c","k","e","r","0">>,
       <<"c","i","l","i","u","m","_","h","o","s","t">>,
       <<"c","i","l","i","u","m","_","v","x","l","a","n">>,
       <<"c","i","l","i","u","m","_","n","e","t">> >>
BuiltinEndpoint == <<"u","n","i","x",":","/","/","/","v","a","r","/","l","i","b","/",
                     "l","x","d","/","u","n","i","x",".","s","o","c","k","e","t">>

\* a variant in which the CLI value is added to the configured one
Resolved_appended(given, cli, endpoint_filters, global_filters, key, builtin) ==
    (IF given THEN cli ELSE <<>>)
    \o (IF key \in DOMAIN endpoint_filters THEN AsList(endpoint_filters[key])
        ELSE IF key \in DOMAIN global_filters THEN AsList(global_filters[key])
        ELSE builtin)

\* the if / elif / elif / else of one list-valued filter
Resolved(given, cli, endpoint_filters, global_filters, key, builtin) ==
    IF given THEN cli
    ELSE IF key \in DOMAIN endpoint_filters THEN AsList(endpoint_filters[key])
    ELSE IF key \in DOMAIN global_filters THEN AsList(global_filters[key])
    ELSE builtin

s_name_format == <<"{","n","a","m","e","}">>

\* `projects == 'all' or 'all' in projects`, then the list or the split string
ConfiguredProjects(x) ==
    IF (IF x.islist THEN InList(s_all, x.v) ELSE Contains(x.v, s_all))
    THEN <<s_all>>
    ELSE AsList(x)

\* a variant in which --project is looked at before --all-projects
ResolvedProjects_project_first(args, endpoint_filters, global_filters) ==
    IF ArgGiven(args.project) THEN CliList(args.project)
    ELSE IF args.all_projects THEN <<s_all>>
    ELSE IF "projects" \in DOMAIN endpoint_filters
    THEN ConfiguredProjects(endpoint_filters["projects"])
    ELSE IF "projects" \in DOMAIN global_filters
    THEN ConfiguredProjects(global_filters["projects"])
    ELSE <<s_default>>

\* the project filter
ResolvedProjects(args, endpoint_filters, global_filters) ==
    IF args.all_projects THEN <<s_all>>
    ELSE IF ArgGiven(args.project) THEN CliList(args.project)
    ELSE IF "projects" \in DOMAIN endpoint_filters
    THEN ConfiguredProjects(endpoint_filters["projects"])
    ELSE IF "projects" \in DOMAIN global_filters
    THEN ConfiguredProjects(global_filters["projects"])
    ELSE <<s_default>>

\* a tags value of the file is [kind, v]: a dict, a list of strings, a string
ConfiguredTags(x) ==
    IF x.kind = "dict" THEN x.v
    ELSE IF x.kind = "list" THEN ParseTagFilters(x.v)
    ELSE ParseTagFilters(<<x.v>>)

ProcessEndpointConfig(args, endpoint_name, endpoint_config, global_defaults) ==
    LET global_filters ==
            IF "filters" \in DOMAIN global_defaults THEN global_defaults["filters"]
                                                    ELSE EmptyDict
        endpoint_filters ==
            IF "filters" \in DOMAIN endpoint_config THEN endpoint_config["filters"]
                                                    ELSE EmptyDict
        filters ==
            [status |->
                 Resolved(ArgGiven(args.status),
                          IF ArgGiven(args.status)
                          THEN [i \in 1..Len(CliList(args.status)) |->
                                   StrLower(CliList(args.status)[i])]
                          ELSE <<>>,
                          endpoint_filters, global_filters, "status", BuiltinStatus),
             type |->
                 Resolved(ArgGiven(args.type),
                          IF ArgGiven(args.type)
                          THEN [i \in 1..Len(CliList(args.type)) |->
                                   TypeMap(CliList(args.type)[i])]
                          ELSE <<>>,
                          endpoint_filters, global_filters, "type", BuiltinType),
             projects |-> ResolvedProjects(args, endpoint_filters, global_filters),
             profiles |->
                 Resolved(ArgGiven(args.profile),
                          IF ArgGiven(args.profile) THEN CliList(args.profile) ELSE <<>>,
                          endpoint_filters, global_filters, "profiles", <<>>),
             ignore_interfaces |->
                 Resolved(ArgGiven(args.ignore_interface),
                          IF ArgGiven(args.ignore_interface)
                          THEN CliList(args.ignore_interface) ELSE <<>>,
                          endpoint_filters, global_filters, "ignore_interfaces",
                          BuiltinIgnore),
             prefer_ipv6 |->
                 IF args.prefer_ipv6 THEN TRUE
                 ELSE IF "prefer_ipv6" \in DOMAIN endpoint_filters
                 THEN endpoint_filters["prefer_ipv6"]
                 ELSE IF "prefer_ipv6" \in DOMAIN global_filters
                 THEN global_filters["prefer_ipv6"]
                 ELSE FALSE,
             exclude_names |->
                 Resolved(FALSE, <<>>, endpoint_filters, global_filters,
                          "exclude_names", <<>>),
             exclude_projects |->
                 Resolved(FALSE, <<>>, endpoint_filters, global_filters,
                          "exclude_projects", <<>>),
             tags |->
                 IF ArgGiven(args.tag) THEN ParseTagFilters(StrSplit(args.tag, ","))
                 ELSE IF "tags" \in DOMAIN endpoint_filters
                 THEN ConfiguredTags(endpoint_filters["tags"])
                 ELSE IF "tags" \in DOMAIN global_filters
                 THEN ConfiguredTags(global_filters["tags"])
                 ELSE EmptyDict]
    IN  [name |-> endpoint_name,
         endpoint |-> IF "endpoint" \in DOMAIN endpoint_config
                      THEN endpoint_config["endpoint"] ELSE BuiltinEndpoint,
         hostname_format |->
             IF "hostname_format" \in DOMAIN endpoint_config
             THEN endpoint_config["hostname_format"]
             ELSE IF "hostname_format" \in DOMAIN global_defaults
             THEN global_defaults["hostname_format"]
             ELSE s_name_format,
         filters |-> filters]

\* the keys of a list in first-seen order (a dict filled in a loop)
RECURSIVE FirstSeen(_)
FirstSeen(l) ==
    IF l = <<>> THEN <<>>
    ELSE LET rest == FirstSeen(SubSeq(l, 1, Len(l) - 1))
         IN  IF InList(l[Len(l)], rest) THEN rest ELSE Append(rest, l[Len(l)])

\* a variant that keeps the requested endpoints that exist and never exits
Missing_none(requested_endpoints, names) == <<>>

\* missing_endpoints
Missing(requested_endpoints, names) ==
    SelectSeq(requested_endpoints, LAMBDA n : ~InList(n, names))

\* The result of a resolution is [exit, global_defaults, endpoints]: exit
\* is TRUE when sys.exit(1) was called; endpoints is the dict
\* config['endpoints'] as the sequence of its values, in dict order.
ProcessMultiEndpointConfig(args, config_data) ==
    LET global_defaults ==
            IF "global_defaults" \in DOMAIN config_data
            THEN config_data["global_defaults"] ELSE EmptyDict
        lxd_endpoints == config_data["lxd_endpoints"]
        endpoints ==
            [i \in 1..Len(lxd_endpoints) |->
                ProcessEndpointConfig(args, lxd_endpoints[i].name,
                                      lxd_endpoints[i].config, global_defaults)]
        names == [i \in 1..Len(endpoints) |-> endpoints[i].name]
        requested_endpoints == CliList(args.endpoint)
        kept == SelectSeq(FirstSeen(requested_endpoints), LAMBDA n : InList(n, names))
    IN  IF ~ArgGiven(args.endpoint)
        THEN [exit |-> FALSE, global_defaults |-> global_defaults,
              endpoints |-> endpoints]
        ELSE IF Missing(requested_endpoints, names) # <<>>
        THEN [exit |-> TRUE, global_defaults |-> global_defaults, endpoints |-> <<>>]
        ELSE [exit |-> FALSE, global_defaults |-> global_defaults,
              endpoints |-> [i \in 1..Len(kept) |->
                  endpoints[CHOOSE j \in 1..Len(endpoints) :
                                endpoints[j].name = kept[i]]]]

DefaultGlobalDefaults ==
    [filters |->
        [status |-> [islist |-> TRUE, v |-> BuiltinStatus],
         type |-> [islist |-> TRUE, v |-> BuiltinType],
         projects |-> [islist |-> TRUE, v |-> <<s_all>>],
         profiles |-> [islist |-> TRUE, v |-> <<>>],
         ignore_interfaces |-> [islist |-> TRUE, v |-> BuiltinIgnore],
         prefer_ipv6 |-> FALSE,
         exclude_names |-> [islist |-> TRUE, v |-> <<>>],
         exclude_projects |-> [islist |-> TRUE, v |-> <<>>],
         tags |-> [kind |-> "dict", v |-> EmptyDict]]]

\* a variant that resolves the endpoint default without global defaults
GetDefaultConfig_builtin(args) ==
    [exit |-> FALSE, global_defaults |-> EmptyDict,
     endpoints |-> << ProcessEndpointConfig(args, s_default,
                          [endpoint |-> BuiltinEndpoint], EmptyDict) >>]

GetDefaultConfig(args) ==
    [exit |-> FALSE, global_defaults |-> DefaultGlobalDefaults,
     endpoints |-> << ProcessEndpointConfig(args, s_default,
                          [endpoint |-> BuiltinEndpoint], DefaultGlobalDefaults) >>]

\* config_data is what _load_yaml_config returned
LoadConfig(args, config_data) ==
    IF "lxd_endpoints" \in DOMAIN config_data
    THEN ProcessMultiEndpointConfig(args, config_data)
    ELSE GetDefaultConfig(args)

----------------------------------------------------------------------------
(* The program from its start: main() constructs LXDInventory(args), which *)
(* resolves the configuration, and lists the inventory. `call` holds args  *)
(* and the content of the configuration file, `ret` the resolution; pc is  *)
(* "call" before the constructor and "exit" after sys.exit(1).             *)

ProjectUrl(p) == <<"/","1",".","0">> \o s_projects_path \o p

\* what every endpoint of these runs answers: projects default and proj,
\* with an instance a in default and an instance b in proj
ConfigWorld ==
    [projects0 |-> [kind |-> "list",
                    items |-> <<ProjectUrl(s_default), ProjectUrl(n_proj)>>],
     projects1 |-> NoAnswer,
     inst |-> [p \in {s_default, n_proj} |->
                  [ok |-> TRUE,
                   items |-> IF p = s_default
                             THEN << RawInstance(n_a, s_container, st_Running,
                                                 <<s_default>>) >>
                             ELSE << RawInstance(n_b, s_vm, st_Stopped,
                                                 <<n_web>>) >>]]]

\* LXDInventory(args): __init__ calls _load_config
Construct ==
    /\ pc = "call"
    /\ call.fn = "main"
    /\ LET loaded == LoadConfig(call.args, call.config_data)
       IN  /\ ret' = loaded
           /\ pc' = IF loaded.exit THEN "exit" ELSE "idle"
           /\ config' = loaded.endpoints
           /\ world' = [e \in 1..Len(loaded.endpoints) |->
                            IF "world" \in DOMAIN call THEN call["world"]
                                                       ELSE ConfigWorld]
    /\ UNCHANGED <<ep, instances, cur, hostvars, groups, assigned, fetched,
                   inventory, call>>

NextConfig ==
    \/ Construct
    \/ BeginGenerate
    \/ FetchEndpoint
    \/ ProcessInstance
    \/ ConflictStep
    \/ AddHost
    \/ NextEndpoint
    \/ Finish

NoArgs ==
    [status |-> None, type |-> None, project |-> None, all_projects |-> FALSE,
     profile |-> None, ignore_interface |-> None, prefer_ipv6 |-> FALSE,
     tag |-> None, endpoint |-> None]

n_e3   == <<"e","3">>
i_eth1 == <<"e","t","h","1">>

AsL(v) == [islist |-> TRUE, v |-> v]
AsS(v) == [islist |-> FALSE, v |-> v]

\* the value of a filter key at each place it can be written
CliOf ==
    [status |-> <<"R","u","n","n","i","n","g",","," ">> \o s_stopped,
     type |-> <<"v","m">>,
     profile |-> n_web \o <<","," ">> \o n_db,
     ignore_interface |-> i_eth1]

EndpointOf ==
    [status |-> [list |-> AsL(<<s_running>>), str |-> AsS(s_stopped \o <<",">> \o s_frozen)],
     type |-> [list |-> AsL(<<s_container>>), str |-> AsS(s_container \o <<",">> \o s_vm)],
     profiles |-> [list |-> AsL(<<s_default>>), str |-> AsS(n_web)],
     ignore_interfaces |-> [list |-> AsL(<<i_lo>>), str |-> AsS(i_lo \o <<",">> \o i_eth0)]]

GlobalOf ==
    [status |-> [list |-> AsL(<<s_error>>), str |-> AsS(s_frozen)],
     type |-> [list |-> AsL(<<s_vm>>), str |-> AsS(s_vm)],
     profiles |-> [list |-> AsL(<<n_db>>), str |-> AsS(n_db \o <<",">> \o n_web)],
     ignore_interfaces |-> [list |-> AsL(<<i_eth0>>), str |-> AsS(i_eth0)]]

\* where a key is written: on the command line or not, and in the endpoint
\* and in global_defaults as a list, as a string, or not at all
Places == [cli : BOOLEAN, endpoint : {"absent", "list", "str"},
           global : {"absent", "list", "str"}]

\* the filters dict of a file in which the keys K are written as `how`
FiltersOf(values, K, how) ==
    [k \in {x \in K : how[x] # "absent"} |-> values[k][how[k]]]

\* one endpoint e1; status and profiles written at the places p, type and
\* ignore_interfaces at the places q
PrecedenceCalls ==
    { LET K == {"status", "type", "profiles", "ignore_interfaces"}
          at == [status |-> p, profiles |-> p, type |-> q, ignore_interfaces |-> q]
      IN  [fn |-> "main",
           args |-> [NoArgs EXCEPT
                       !.status = IF p.cli THEN CliOf.status ELSE None,
                       !.profile = IF p.cli THEN CliOf.profile ELSE None,
                       !.type = IF q.cli THEN CliOf.type ELSE None,
                       !.ignore_interface = IF q.cli THEN CliOf.ignore_interface
                                                     ELSE None],
           config_data |->
               [lxd_endpoints |->
                    << [name |-> n_e1,
                        config |-> [endpoint |-> u_socket,
                                    filters |-> FiltersOf(EndpointOf, K,
                                                   [k \in K |-> at[k].endpoint])]] >>,
                global_defaults |->
                    [filters |-> FiltersOf(GlobalOf, K,
                                           [k \in K |-> at[k].global])]]] :
      p \in Places, q \in Places }

\* endpoints e1 (with the filters given) and e2 (without filters)
TwoEndpoints(filters1, global_defaults) ==
    [lxd_endpoints |->
         << [name |-> n_e1, config |-> [endpoint |-> u_socket, filters |-> filters1]],
            [name |-> n_e2, config |-> [endpoint |-> u_socket]] >>,
     global_defaults |-> global_defaults]

\* --all-projects or not, --project or not, projects written in e1 and in
\* global_defaults or not
ProjectsCalls ==
    { [fn |-> "main",
       args |-> [NoArgs EXCEPT !.all_projects = ap, !.project = pr],
       config_data |-> TwoEndpoints(f, [filters |-> gf])] :
      ap \in BOOLEAN,
      pr \in { None, n_proj },
      f \in { EmptyDict } \cup
            { [projects |-> x] :
                  x \in { AsS(s_all), AsL(<<n_proj>>), AsL(<<s_default, s_all>>),
                          AsS(s_default \o <<",">> \o n_proj) } },
      gf \in { EmptyDict, [projects |-> AsL(<<n_dev>>)] } }

\* the values of --endpoint: none, e1, e2, 'e2, e1', 'e1,e1', e3, 'e1,e3', ''
EndpointOptions ==
    { None, n_e1, n_e2, n_e2 \o <<","," ">> \o n_e1, n_e1 \o <<",">> \o n_e1,
      n_e3, n_e1 \o <<",">> \o n_e3, <<>> }

\* a file with e1 and e2, a file with no endpoint, and no file
EndpointCalls ==
    { [fn |-> "main", args |-> [NoArgs EXCEPT !.endpoint = e], config_data |-> c] :
      e \in EndpointOptions,
      c \in { TwoEndpoints(EmptyDict, EmptyDict), [lxd_endpoints |-> <<>>],
              EmptyDict } }

\* no file, or a file without lxd_endpoints, with and without options
DefaultCalls ==
    { [fn |-> "main", args |-> a, config_data |-> c] :
      a \in { NoArgs, [NoArgs EXCEPT !.status = s_running],
              [NoArgs EXCEPT !.project = n_proj],
              [NoArgs EXCEPT !.all_projects = TRUE],
              [NoArgs EXCEPT !.prefer_ipv6 = TRUE,
                             !.tag = k_role \o <<"=">> \o n_web] },
      c \in { EmptyDict,
              [global_defaults |-> [filters |-> [status |-> AsL(<<s_stopped>>)]]] } }

u_remote == <<"h","t","t","p","s",":","/","/","h">>

\* a file in the flat shape: the keys of one endpoint at the top level
FlatCalls ==
    { [fn |-> "main", args |-> NoArgs, config_data |-> c] :
      c \in { [endpoint |-> u_remote],
              [endpoint |-> u_remote, hostname_format |-> t_project_name,
               filters |-> [status |-> AsL(<<s_stopped>>)]],
              [endpoint |-> u_remote, verify_ssl |-> TRUE,
               filters |-> [projects |-> AsL(<<n_proj>>),
                            type |-> AsL(<<s_vm>>)]] } }

\* a server whose projects listings are not in a known shape
UnlistedWorld ==
    [ConfigWorld EXCEPT !.projects0 = [kind |-> "other", items |-> <<>>],
                        !.projects1 = [kind |-> "other", items |-> <<>>]]

s_default_proj == s_default \o <<",", " ">> \o n_proj

\* exclude_projects written in e1 or in global_defaults, against projects
\* written in e1, given by --project, or left to the fallbacks; each with a
\* server that lists default and proj and with one whose listing is unusable
ExcludedCalls ==
    { [fn |-> "main",
       args |-> [NoArgs EXCEPT !.project = pr],
       config_data |-> TwoEndpoints(f, [filters |-> gf]),
       world |-> w] :
      pr \in { None, n_proj, s_default_proj },
      f \in { [exclude_projects |-> x] :
                  x \in { AsL(<<n_proj>>), AsS(s_default),
                          AsL(<< s_regex \o <<".","*">> >>) } }
            \cup
            { [projects |-> y, exclude_projects |-> x] :
                  y \in { AsL(<<n_proj, s_default>>), AsS(s_all) },
                  x \in { AsL(<<n_proj>>), AsS(s_default),
                          AsL(<< s_regex \o <<".","*">> >>) } },
      gf \in { EmptyDict, [exclude_projects |-> AsL(<<s_default>>)] },
      w \in { ConfigWorld, UnlistedWorld } }

ConfigCalls ==
    PrecedenceCalls \cup ProjectsCalls \cup EndpointCalls \cup DefaultCalls \cup FlatCalls
        \cup ExcludedCalls

InitConfig == CallInit(ConfigCalls)

SpecConfig == InitConfig /\ [][NextConfig]_vars

\* --- the resolution of one endpoint, for a run that was constructed

Constructed == call # NoCall /\ call.fn = "main" /\ pc # "call"

\* the configuration written for the endpoint called name; the endpoint
\* made up when the file has no lxd_endpoints has no filters
RawEndpoint(name) ==
    IF "lxd_endpoints" \in DOMAIN call.config_data
    THEN LET l == call.config_data["lxd_endpoints"]
         IN  l[CHOOSE i \in 1..Len(l) : l[i].name = name].config
    ELSE [endpoint |-> BuiltinEndpoint]

RawFilters(d) == IF "filters" \in DOMAIN d THEN d["filters"] ELSE EmptyDict

RawGlobal ==
    IF "global_defaults" \in DOMAIN call.config_data
    THEN call.config_data["global_defaults"] ELSE EmptyDict

\* the list a filter value of the file stands for
ListOf(x) == IF x.islist THEN x.v ELSE StrSplit(x.v, ",")

CliOption(key) ==
    IF key = "status" THEN call.args.status
    ELSE IF key = "type" THEN call.args.type
    ELSE IF key = "profiles" THEN call.args.profile
    ELSE call.args.ignore_interface

\* the value of an option of the command line: its comma-separated items,
\* stripped, lower-cased for --status, vm and lxc spelled out for --type
CliValue(key) ==
    LET l == CliList(CliOption(key))
    IN  [i \in 1..Len(l) |-> IF key = "status" THEN StrLower(l[i])
                             ELSE IF key = "type" THEN TypeMap(l[i])
                             ELSE l[i]]

BuiltinOf(key) ==
    IF key = "status" THEN BuiltinStatus
    ELSE IF key = "type" THEN BuiltinType
    ELSE IF key = "profiles" THEN <<>>
    ELSE BuiltinIgnore

C14_AllProjects ==
    (Constructed /\ ~ret.exit /\ call.args.all_projects) =>
        \A e \in 1..Len(ret.endpoints) : ret.endpoints[e].filters.projects = <<s_all>>

\* C14 witness: --all-projects with --project proj, projects: [proj] in e1
\* and projects: [dev] in global_defaults; both endpoints resolve to all.
C14_Witness ==
    /\ Constructed /\ ~ret.exit
    /\ call.args.all_projects
    /\ call.args.project = n_proj
    /\ "lxd_endpoints" \in DOMAIN call.config_data
    /\ "projects" \in DOMAIN RawFilters(RawEndpoint(n_e1))
    /\ RawFilters(RawEndpoint(n_e1))["projects"] = AsL(<<n_proj>>)
    /\ "projects" \in DOMAIN RawFilters(RawGlobal)
    /\ Len(ret.endpoints) = 2
    /\ ret.endpoints[1].filters.projects = <<s_all>>
    /\ ret.endpoints[2].filters.projects = <<s_all>>

\* the names asked for by --endpoint
RequestedEndpoints == Range(CliList(call.args.endpoint))

\* the names of the endpoints the file defines
FileEndpoints ==
    IF "lxd_endpoints" \in DOMAIN call.config_data
    THEN { call.config_data["lxd_endpoints"][i].name :
               i \in 1..Len(call.config_data["lxd_endpoints"]) }
    ELSE {}

ResolvedNames == { ret.endpoints[e].name : e \in 1..Len(ret.endpoints) }

\* sys.exit(1) was called and nothing of an inventory exists
FailedWithoutInventory ==
    /\ ret.exit
    /\ pc = "exit"
    /\ fetched = <<>>
    /\ hostvars = EmptyDict
    /\ inventory = [hostvars |-> EmptyDict, groups |-> EmptyDict]

\* the endpoints resolved are those asked for, or the resolution failed
\* because one of them is not available
RestrictedOrFailed(available) ==
    IF RequestedEndpoints \subseteq available
    THEN ~ret.exit /\ ResolvedNames = RequestedEndpoints
    ELSE FailedWithoutInventory

NoConfiguration ==
    /\ Constructed
    /\ "lxd_endpoints" \notin DOMAIN call.config_data
    /\ call.args = NoArgs

\* one endpoint default on the local socket, with the four statuses, the
\* two types, the standard ignore list, and the projects given
OneDefaultEndpoint(projects) ==
    /\ ~ret.exit
    /\ Len(ret.endpoints) = 1
    /\ ret.endpoints[1].name = s_default
    /\ ret.endpoints[1].endpoint = BuiltinEndpoint
    /\ ret.endpoints[1].filters.projects = projects
    /\ ret.endpoints[1].filters.status = <<s_running, s_stopped, s_frozen, s_error>>
    /\ ret.endpoints[1].filters.type = <<s_container, s_vm>>
    /\ ret.endpoints[1].filters.ignore_interfaces = BuiltinIgnore

\* C16 as stated: with no configuration the resolver gives exactly one
\* endpoint, named default, on the local socket, with projects [default],
\* the four statuses, both types and the standard ignore list.
C16_DefaultEndpoint ==
    NoConfiguration => OneDefaultEndpoint(<<s_default>>)

\* C16 amended: the same, with projects [all].
C16_DefaultEndpointAllProjects ==
    NoConfiguration => OneDefaultEndpoint(<<s_all>>)

\* C16 witness: a run without configuration has listed the projects of the
\* endpoint default and collected the instances of default and of proj.
C16_Witness ==
    /\ NoConfiguration
    /\ call.config_data = EmptyDict
    /\ pc = "done"
    /\ Len(config) = 1 /\ config[1].name = s_default
    /\ \E i, j \in 1..N :
          /\ InstanceProject(assigned[i].instance) = s_default
          /\ InstanceProject(assigned[j].instance) = n_proj

----------------------------------------------------------------------------
(* _get_instances called directly: one endpoint configuration and the      *)
(* answers of its server.                                                  *)

CallGetInstances ==
    /\ pc = "call"
    /\ call.fn = "_get_instances"
    /\ Return(GetInstances(call.endpoint_config, call.w))

n_staging == <<"s","t","a","g","i","n","g">>
n_c       == <<"c">>

FetchProjectNames == <<s_default, n_staging, n_proj>>

\* what /instances answers for the k-th project: it fails, it has no
\* instance, or it has the instances of FetchItems(k)
FetchItems(k) ==
    IF k = 1 THEN << RawInstance(n_a, s_container, st_Running, <<s_default>>),
                     RawInstance(n_b, s_vm, st_Stopped, <<>>) >>
    ELSE IF k = 2 THEN << RawInstance(n_a, s_container, st_Running, <<>>) >>
    ELSE << RawInstance(n_c, s_container, st_Running, <<n_web>>) >>

FetchOutcomes ==
    { <<o1, o2, o3>> : o1 \in {"ok", "fail"}, o2 \in {"ok", "fail", "empty"},
                       o3 \in {"ok", "fail"} }

InstAnswers(outcomes) ==
    [p \in Range(FetchProjectNames) |->
        LET k == CHOOSE i \in 1..3 : FetchProjectNames[i] = p
        IN  [ok    |-> outcomes[k] # "fail",
             items |-> IF outcomes[k] = "ok" THEN FetchItems(k) ELSE <<>>]]

u_other == <<"/","1",".","0","/","o","t","h","e","r","/","x">>

UrlList(names) == [kind |-> "list", items |-> [i \in 1..Len(names) |-> ProjectUrl(names[i])]]

KeyList(names) == [kind |-> "dict", items |-> names]

OtherAnswer == [kind |-> "other", items |-> <<>>]

\* <<the answer of /projects?recursion=0, the answer of /projects>>
Listings ==
    { <<first, NoAnswer>> :
          first \in { NoAnswer, UrlList(<<>>), UrlList(<<s_default, n_staging>>),
                      UrlList(<<n_proj, n_staging, s_default>>),
                      [kind |-> "list", items |-> <<u_other>>],
                      [kind |-> "list", items |-> <<ProjectUrl(n_proj), u_other>>] } }
    \cup
    { <<first, second>> :
          first  \in { KeyList(<<s_default, n_staging>>), OtherAnswer },
          second \in { NoAnswer, KeyList(<<n_staging, n_proj>>),
                       UrlList(<<s_default, n_staging>>), OtherAnswer } }

FetchWorlds ==
    { [projects0 |-> l[1], projects1 |-> l[2], inst |-> InstAnswers(o)] :
          l \in Listings, o \in FetchOutcomes }

FetchProjectLists ==
    { <<s_all>>, <<s_default, n_staging, n_proj>>, <<n_staging, s_default>>,
      <<n_proj>> }

\* regex:^stag.*, default, regex:[ (does not compile), regex:.* (everything)
FetchExcludes ==
    { <<>>, << s_regex \o <<"^","s","t","a","g",".","*">> >>, << s_default >>,
      << s_regex \o <<"[">>, n_proj >>, << s_regex \o <<".","*">> >> }

FetchConfig(projects, exclude_projects) ==
    EndpointConfig(n_e1, t_name,
                   [Filters(<<>>, projects) EXCEPT !.exclude_projects = exclude_projects])

FetchCalls ==
    { [fn |-> "_get_instances", endpoint_config |-> FetchConfig(p, x), w |-> w] :
          p \in FetchProjectLists, x \in FetchExcludes, w \in FetchWorlds }

InitFetch == CallInit(FetchCalls)

NextFetch == CallGetInstances

SpecFetch == InitFetch /\ [][NextFetch]_vars

\* the projects whose instances were requested, in the order of the requests
Requested ==
    LET asked == SelectSeq(ret.fetches, LAMBDA f : f[1] = "instances")
    IN  [i \in 1..Len(asked) |-> asked[i][2]]

FetchSucceeded(p) == p \in DOMAIN call.w.inst /\ call.w.inst[p].ok

\* the items a project answered, each with lxd_project and lxd_endpoint set
StampedItems(p) ==
    LET items == call.w.inst[p].items
    IN  [i \in 1..Len(items) |->
            [f \in DOMAIN items[i] |->
                IF f = "lxd_project" THEN p
                ELSE IF f = "lxd_endpoint" THEN call.endpoint_config.name
                ELSE items[i][f]]]

\* the stamped items of the first k projects requested, the failed ones left out
RECURSIVE Gathered(_)
Gathered(k) ==
    IF k = 0 THEN <<>>
    ELSE Gathered(k - 1) \o (IF FetchSucceeded(Requested[k])
                             THEN StampedItems(Requested[k]) ELSE <<>>)

ExplicitProjects ==
    /\ ~InList(s_all, call.endpoint_config.filters.projects)
    /\ call.endpoint_config.filters.exclude_projects = <<>>

\* C17: _get_instances returns, whatever the per-project fetches answer,
\* exactly the concatenation in project order of the instances of the
\* projects whose fetch succeeded, each stamped with lxd_project and
\* lxd_endpoint; a failed fetch adds nothing and later projects are still
\* requested (with an explicit project list and no exclusion, every
\* configured project is requested, in order); when every fetch fails the
\* result is the empty list.
C17_FetchFailuresSkipped ==
    Returned("_get_instances") =>
        /\ ret.instances = Gathered(Len(Requested))
        /\ ExplicitProjects => Requested = call.endpoint_config.filters.projects
        /\ (\A i \in 1..Len(Requested) : ~FetchSucceeded(Requested[i]))
               => ret.instances = <<>>

\* an explicit list of three projects, the first fetch fails, the later two
\* are still requested and their instances returned
C17_Witness ==
    /\ Returned("_get_instances")
    /\ ExplicitProjects
    /\ Len(Requested) = 3
    /\ ~FetchSucceeded(Requested[1])
    /\ FetchSucceeded(Requested[2]) /\ FetchSucceeded(Requested[3])
    /\ Len(ret.instances) = 2
    /\ ret.instances[2].lxd_project = n_proj
    /\ ret.instances[2].lxd_endpoint = n_e1

\* the projects setting holds the sentinel `all`
AllProjects == Returned("_get_instances") /\ InList(s_all, call.endpoint_config.filters.projects)

\* the listing the project names are taken from: the answer of
\* /projects?recursion=0 when it is a list (or empty), else that of /projects
UsedListing ==
    IF Falsy(call.w.projects0) \/ call.w.projects0.kind = "list"
    THEN call.w.projects0 ELSE call.w.projects1

\* a project matched by an exclude_projects pattern: literal equality, or
\* regex: as a prefix-anchored match
ExcludedProject(p) ==
    \E i \in 1..Len(call.endpoint_config.filters.exclude_projects) :
        LET pattern == call.endpoint_config.filters.exclude_projects[i]
            regex   == SubSeq(pattern, Len(s_regex) + 1, Len(pattern))
        IN  IF StartsWith(pattern, s_regex)
            THEN ~ReError(regex) /\ ReMatch(regex, p)
            ELSE pattern = p

\* the last path segment of each URL, or the keys of a key-list
NamedByListing ==
    IF UsedListing.kind = "list"
    THEN { LastSegment(UsedListing.items[i]) : i \in 1..Len(UsedListing.items) }
    ELSE IF UsedListing.kind = "dict" THEN Range(UsedListing.items)
    ELSE {}

\* the same, a URL counting only when it contains /projects/
NamedByProjectUrls ==
    IF UsedListing.kind = "list"
    THEN { LastSegment(UsedListing.items[i]) :
               i \in { j \in 1..Len(UsedListing.items) :
                           Contains(UsedListing.items[j], s_projects_path) } }
    ELSE IF UsedListing.kind = "dict" THEN Range(UsedListing.items)
    ELSE {}

\* C18 as stated: with projects = all, the projects whose instances are
\* fetched are exactly those named by the projects listing (last path
\* segment of each URL, or the keys of a key-list) that no exclude_projects
\* pattern matches.
C18_DiscoveredProjects ==
    AllProjects => Range(Requested) = { p \in NamedByListing : ~ExcludedProject(p) }

\* C18, amended: with projects = all, nothing is fetched when the first
\* projects listing is empty or fails; otherwise the projects fetched are
\* those named by the listing (last path segment of each URL containing
\* /projects/, or the keys of a key-list), or `default` alone when the
\* listing names none, less every project an exclude_projects pattern
\* matches.
C18_DiscoveredProjectsOrDefault ==
    AllProjects =>
        LET discovered == IF Falsy(call.w.projects0) THEN {}
                          ELSE IF NamedByProjectUrls = {} THEN {s_default}
                          ELSE NamedByProjectUrls
        IN  Range(Requested) = { p \in discovered : ~ExcludedProject(p) }

\* the listing [/1.0/projects/default, /1.0/projects/staging] with
\* exclude_projects [regex:^stag.*]: only the instances of default
C18_Witness ==
    /\ AllProjects
    /\ call.w.projects0 = UrlList(<<s_default, n_staging>>)
    /\ call.endpoint_config.filters.exclude_projects
           = << s_regex \o <<"^","s","t","a","g",".","*">> >>
    /\ Requested = <<s_default>>
    /\ ret.instances # <<>>
    /\ \A i \in 1..Len(ret.instances) : ret.instances[i].lxd_project = s_default

----------------------------------------------------------------------------
(* get_instance_vars: the inventory is generated, then the name looked up. *)
(* The result is a dict: {} or {"_meta": {"hostvars": {...}}}.             *)

Meta(hosts) == [k \in {"_meta"} |-> [hostvars |-> hosts]]

\* a variant that looks for the original LXD name before the hostname
GetInstanceVars_name_first(inv, instance_name) ==
    LET all_hostvars   == inv.hostvars
        matching_hosts == { host_name \in DOMAIN all_hostvars :
                                all_hostvars[host_name].lxd_name = instance_name }
    IN  IF matching_hosts # {}
        THEN Meta([host_name \in matching_hosts |-> all_hostvars[host_name]])
        ELSE IF instance_name \in DOMAIN all_hostvars
        THEN Meta([host_name \in {instance_name} |-> all_hostvars[host_name]])
        ELSE EmptyDict

\* the part of get_instance_vars after _generate_inventory()
GetInstanceVars(inv, instance_name) ==
    LET all_hostvars   == inv.hostvars
        matching_hosts == { host_name \in DOMAIN all_hostvars :
                                all_hostvars[host_name].lxd_name = instance_name }
    IN  IF instance_name \in DOMAIN all_hostvars
        THEN Meta([host_name \in {instance_name} |-> all_hostvars[host_name]])
        ELSE IF Cardinality(matching_hosts) = 1
        THEN Meta([host_name \in matching_hosts |-> all_hostvars[host_name]])
        ELSE IF Cardinality(matching_hosts) > 1
        THEN Meta([host_name \in matching_hosts |-> all_hostvars[host_name]])
        ELSE EmptyDict

CallGetInstanceVars ==
    /\ pc = "done"
    /\ call # NoCall
    /\ call.fn = "get_instance_vars"
    /\ pc' = "return"
    /\ ret' = GetInstanceVars(inventory, call.instance_name)
    /\ UNCHANGED <<config, world, ep, instances, cur, hostvars, groups, assigned,
                   fetched, inventory, call>>

MaxHosts == 3   \* instances answered in all, in the lookup runs

\* a in e1/default, a in e1/proj, a-1 in e2/default, b in e1/default
LookupItems ==
    { <<<<1, s_default>>, RawInstance(n_a,  s_container, st_Running, <<>>)>>,
      <<<<1, n_proj>>,    RawInstance(n_a,  s_vm,        st_Running, <<>>)>>,
      <<<<2, s_default>>, RawInstance(n_a1, s_container, st_Running, <<>>)>>,
      <<<<1, s_default>>, RawInstance(n_b,  s_container, st_Stopped, <<>>)>> }

LookupLists == UNION { [1..n -> LookupItems] : n \in 0..MaxHosts }

LookupNames == { n_a, n_a1, n_b, n_c }

LookupInputs ==
    { [config |-> ShortConfig(<<t, <<>>>>), world |-> ShortWorld(l),
       call |-> [fn |-> "get_instance_vars", instance_name |-> n]] :
          t \in {t_name, t_project_name}, l \in LookupLists, n \in LookupNames }

InitLookup ==
    /\ \E i \in LookupInputs : config = i.config /\ world = i.world /\ call = i.call
    /\ pc = "idle"
    /\ ep = 0
    /\ instances = <<>>
    /\ cur = NoCur
    /\ hostvars = EmptyDict
    /\ groups = EmptyDict
    /\ assigned = <<>>
    /\ fetched = <<>>
    /\ inventory = [hostvars |-> EmptyDict, groups |-> EmptyDict]
    /\ ret = NoCall

NextLookup ==
    \/ BeginGenerate
    \/ FetchEndpoint
    \/ ProcessInstance
    \/ ConflictStep
    \/ AddHost
    \/ NextEndpoint
    \/ Finish
    \/ CallGetInstanceVars

SpecLookup == InitLookup /\ [][NextLookup]_vars

LookedUp == pc = "return" /\ call # NoCall /\ call.fn = "get_instance_vars"

\* the hosts of a result of get_instance_vars
ResultHosts == IF DOMAIN ret = {} THEN EmptyDict ELSE ret["_meta"].hostvars

NamedLike(n) == { h \in DOMAIN inventory.hostvars : inventory.hostvars[h].lxd_name = n }

\* C19: get_instance_vars(n) holds exactly the host n when n is a key of
\* hostvars, even when other hosts have lxd_name n; otherwise exactly the
\* hosts whose lxd_name is n (one, several, or none: then the result is {});
\* every host returned is a host of the full inventory with the same
\* variables.
C19_LookupByName ==
    LookedUp =>
        LET n == call.instance_name
        IN  /\ n \in DOMAIN inventory.hostvars => DOMAIN ResultHosts = {n}
            /\ n \notin DOMAIN inventory.hostvars =>
                   /\ DOMAIN ResultHosts = NamedLike(n)
                   /\ NamedLike(n) = {} <=> ret = EmptyDict
            /\ \A h \in DOMAIN ResultHosts :
                   /\ h \in DOMAIN inventory.hostvars
                   /\ ResultHosts[h] = inventory.hostvars[h]

\* the name is a host, another host has it as lxd_name, and the result holds
\* the first alone
C19_Witness ==
    /\ LookedUp
    /\ call.instance_name \in DOMAIN inventory.hostvars
    /\ inventory.hostvars[call.instance_name].lxd_name # call.instance_name
    /\ NamedLike(call.instance_name) # {}
    /\ DOMAIN ResultHosts = {call.instance_name}

----------------------------------------------------------------------------
(* The sanitization of _format_hostname applied to a string, then to its   *)
(* own result. ret is the list of the results so far.                      *)

CallSanitize ==
    /\ pc = "call"
    /\ call.fn = "sanitize"
    /\ Return(<<Sanitize(call.hostname)>>)

SanitizeAgain ==
    /\ pc = "return"
    /\ call.fn = "sanitize"
    /\ Len(ret) = 1
    /\ pc' = "again"
    /\ ret' = Append(ret, Sanitize(ret[1]))
    /\ UNCHANGED <<config, world, ep, instances, cur, hostvars, groups, assigned,
                   fetched, inventory, call>>

MaxHostnameLen == 4   \* characters of a string to sanitize

SanitizeChars == {"a", "9", ".", "-", "_"}

SanitizeCalls ==
    { [fn |-> "sanitize", hostname |-> h] : h \in SeqsUpTo(SanitizeChars, MaxHostnameLen) }

InitSanitize == CallInit(SanitizeCalls)

NextSanitize ==
    \/ CallSanitize
    \/ SanitizeAgain

SpecSanitize == InitSanitize /\ [][NextSanitize]_vars

\* C20: sanitizing a sanitized hostname yields it unchanged, whatever the
\* string that was sanitized first.
C20_SanitizeIdempotent ==
    (pc = "again" /\ call.fn = "sanitize") => ret[2] = ret[1]

\* a string the first sanitization changed into a non-empty hostname, which
\* the second leaves alone
C20_Witness ==
    /\ pc = "again"
    /\ call.fn = "sanitize"
    /\ HasChar(call.hostname, "_")
    /\ ret[1] # call.hostname
    /\ ret[1] # <<>>
    /\ ret[2] = ret[1]

\* --- the flat single-endpoint shape

FlatShape ==
    /\ Constructed
    /\ "lxd_endpoints" \notin DOMAIN call.config_data
    /\ "endpoint" \in DOMAIN call.config_data
    /\ call.args = NoArgs

FlatValue(key, otherwise) ==
    IF key \in DOMAIN call.config_data THEN call.config_data[key] ELSE otherwise

\* C21: a file in the flat single-endpoint shape gives one endpoint whose
\* connection address, hostname_format and filters are those of the
\* top-level keys, not the built-in ones.
C21_FlatShapeRecognized ==
    FlatShape =>
        /\ ~ret.exit
        /\ Len(ret.endpoints) = 1
        /\ ret.endpoints[1].endpoint = call.config_data["endpoint"]
        /\ ret.endpoints[1].hostname_format = FlatValue("hostname_format", s_name_format)
        /\ \A key \in DOMAIN FlatValue("filters", EmptyDict) :
               ret.endpoints[1].filters[key] = ListOf(call.config_data["filters"][key])

\* what the program does with such a file: the endpoint is the built-in one
C21_FlatShapeIgnored ==
    /\ FlatShape
    /\ "filters" \in DOMAIN call.config_data
    /\ "status" \in DOMAIN call.config_data["filters"]
    /\ OneDefaultEndpoint(<<s_all>>)
    /\ ret.endpoints[1].hostname_format = s_name_format

----------------------------------------------------------------------------
(* The order of the requests and of the hosts added                        *)

\* the endpoints of the requests made so far, and of the hosts added so far
FetchedEndpoints(f)  == { f[i][1] : i \in 1..Len(f) }
AssignedEndpoints(a) == { a[i].ep : i \in 1..Len(a) }

\* the requests are grouped by endpoint, in configuration order, and within
\* an endpoint every projects listing comes before every instances request
FetchesInOrder(f) ==
    \A i, j \in 1..Len(f) :
        i < j => /\ f[i][1] <= f[j][1]
                 /\ (f[i][1] = f[j][1] /\ f[i][2] = "instances") => f[j][2] = "instances"

\* C22: endpoints are processed one after another in configuration order.
\* A step that issues requests issues them for one endpoint, later than
\* every endpoint that has a request or a host so far, listing first, and
\* adds no host; a step that adds a host issues no request and adds the
\* host for the endpoint of the latest requests, so every request and host
\* of an endpoint precedes the first request of the next, and all requests
\* of an endpoint precede the filtering and assembly of its instances.
C22_EndpointsInOrder ==
    [][ /\ FetchesInOrder(fetched')
        /\ (fetched' # fetched /\ fetched' # <<>>) =>
               /\ assigned' = assigned
               /\ Len(fetched') > Len(fetched)
               /\ SubSeq(fetched', 1, Len(fetched)) = fetched
               /\ \A i \in (Len(fetched) + 1)..Len(fetched') :
                      /\ fetched'[i][1] = fetched'[Len(fetched')][1]
                      /\ \A e \in FetchedEndpoints(fetched) \cup AssignedEndpoints(assigned) :
                             e < fetched'[i][1]
        /\ (assigned' # assigned /\ assigned' # <<>>) =>
               /\ fetched' = fetched
               /\ Len(assigned') = Len(assigned) + 1
               /\ SubSeq(assigned', 1, Len(assigned)) = assigned
               /\ \A e \in FetchedEndpoints(fetched) \cup AssignedEndpoints(assigned) :
                      e <= assigned'[Len(assigned')].ep
               /\ pc \in {"conflict", "add"}
      ]_vars

\* both endpoints answered instances and both have a host in the inventory
C22_Witness ==
    /\ pc = "done"
    /\ Len(config) = 2
    /\ FetchedEndpoints(fetched) = {1, 2}
    /\ AssignedEndpoints(assigned) = {1, 2}
    /\ Len(fetched) >= 3

----------------------------------------------------------------------------
(* Two generations on one LXDInventory object, the answers of the servers  *)
(* being the same: _generate_inventory is called, returns, and is called   *)
(* again. ret keeps what the first call returned and the configuration it  *)
(* left.                                                                   *)

GenerateAgain ==
    /\ pc = "done"
    /\ call # NoCall
    /\ call.fn = "_generate_inventory"
    /\ ret = NoCall
    /\ ret' = [inventory |-> inventory, config |-> config]
    /\ pc' = "idle"
    /\ UNCHANGED <<config, world, ep, instances, cur, hostvars, groups, assigned,
                   fetched, inventory, call>>

TwiceInputs ==
    { [config |-> ShortConfig(v), world |-> ShortWorld(l)] :
          v \in ShortVariants, l \in LookupLists }

InitTwice ==
    /\ \E i \in TwiceInputs : config = i.config /\ world = i.world
    /\ call = [fn |-> "_generate_inventory"]
    /\ pc = "idle"
    /\ ep = 0
    /\ instances = <<>>
    /\ cur = NoCur
    /\ hostvars = EmptyDict
    /\ groups = EmptyDict
    /\ assigned = <<>>
    /\ fetched = <<>>
    /\ inventory = [hostvars |-> EmptyDict, groups |-> EmptyDict]
    /\ ret = NoCall

NextTwice ==
    \/ BeginGenerate
    \/ FetchEndpoint
    \/ ProcessInstance
    \/ ConflictStep
    \/ AddHost
    \/ NextEndpoint
    \/ Finish
    \/ GenerateAgain

SpecTwice == InitTwice /\ [][NextTwice]_vars

\* the second generation has returned
SecondDone == pc = "done" /\ ret # NoCall

\* C23: a second generation on the same object, with the same answers,
\* returns the inventory the first returned (hostnames, suffixes, groups and
\* host variables), and no step of a generation changes the resolved
\* endpoint configurations.
C23_NoCrossRunState ==
    [][ /\ config' = config
        /\ SecondDone' => (inventory' = ret'.inventory /\ config' = ret'.config)
      ]_vars

\* a second generation that had to suffix a hostname again and returned the
\* same inventory of several hosts
C23_Witness ==
    /\ SecondDone
    /\ \E i \in 1..Len(assigned) : assigned[i].hostname # assigned[i].original
    /\ Cardinality(DOMAIN inventory.hostvars) >= 2
    /\ inventory = ret.inventory

----------------------------------------------------------------------------
(* Groups and hostvars agree                                               *)

\* the hosts listed in the groups g are the keys of hv, `all` lists them
\* all, and every record is stored under its own lxd_hostname
GroupsAgree(g, hv) ==
    /\ \A name \in DOMAIN g : HostsOf(g, name) \subseteq DOMAIN hv
    /\ HostsOf(g, g_all) = DOMAIN hv
    /\ \A k \in DOMAIN hv : hv[k].lxd_hostname = k

\* C24: after each instance has been fully processed (AddHost is one step,
\* so in every state of a run), and in the final inventory, every hostname
\* of a group is a key of hostvars, `all` lists exactly the keys of
\* hostvars, and the record under key k has lxd_hostname = k.
C24_GroupsAgreeWithHostvars ==
    /\ pc \in {"endpoints", "instances", "conflict", "add", "done"}
           => GroupsAgree(groups, hostvars)
    /\ pc = "done" => GroupsAgree(inventory.groups, inventory.hostvars)

\* a final inventory of several hosts, one of them under a suffixed hostname
C24_Witness ==
    /\ pc = "done"
    /\ Cardinality(DOMAIN inventory.hostvars) >= 2
    /\ \E i \in 1..Len(assigned) :
          /\ assigned[i].hostname # assigned[i].original
          /\ assigned[i].hostname \in HostsOf(inventory.groups, g_all)
          /\ inventory.hostvars[assigned[i].hostname].lxd_name = assigned[i].instance.name

----------------------------------------------------------------------------
(* Rejected instances                                                      *)

\* the instance loop is about to take an instance that the filter rejects
AtRejected ==
    /\ pc = "instances"
    /\ instances # <<>>
    /\ ~FilterInstance(Head(instances), config[ep])

\* the instances the collector returned for endpoint e
Collected(e) == GetInstances(config[e], world[e]).instances

\* C25: the step that takes a rejected instance changes nothing but the
\* list of the instances still to process, which loses its head: the run
\* goes on from the state it would be in had the fetch not returned that
\* instance, so hostvars, the groups and the hostname and suffix of every
\* other instance are the same. In particular every key of hostvars is the
\* hostname of an instance that passed the filter.
C25_RejectedHasNoEffect ==
    [][ /\ AtRejected =>
               /\ instances' = Tail(instances)
               /\ UNCHANGED <<config, world, pc, ep, cur, hostvars, groups, assigned,
                              fetched, inventory>>
        /\ \A i \in 1..Len(assigned') :
               FilterInstance(assigned'[i].instance, config'[assigned'[i].ep])
        /\ DOMAIN hostvars' = { assigned'[i].hostname : i \in 1..Len(assigned') }
      ]_vars

\* a rejected instance came first and an instance with the same formatted
\* hostname after it got that hostname without a suffix
C25_Witness ==
    /\ pc = "done"
    /\ \E e \in 1..Len(config) :
          \E i, j \in 1..Len(Collected(e)) :
              /\ i < j
              /\ ~FilterInstance(Collected(e)[i], config[e])
              /\ FilterInstance(Collected(e)[j], config[e])
              /\ FormatHostname(Collected(e)[i], config[e])
                     = FormatHostname(Collected(e)[j], config[e])
              /\ \E k \in 1..Len(assigned) :
                     /\ assigned[k].instance = Collected(e)[j]
                     /\ assigned[k].ep = e
                     /\ assigned[k].hostname = assigned[k].original
                     /\ Len(assigned) = 1

----------------------------------------------------------------------------
(* exclude_projects, whatever the origin of the project list               *)

\* a pattern of the list matches the project: literal equality, or regex:
\* as a prefix-anchored match
MatchesExclude(p, patterns) ==
    \E i \in 1..Len(patterns) :
        LET regex == SubSeq(patterns[i], Len(s_regex) + 1, Len(patterns[i]))
        IN  IF StartsWith(patterns[i], s_regex)
            THEN ~ReError(regex) /\ ReMatch(regex, p)
            ELSE patterns[i] = p

\* the instances requests made for endpoint e so far
InstanceFetches(e) ==
    { fetched[i][3] : i \in { j \in 1..Len(fetched) :
                                  fetched[j][1] = e /\ fetched[j][2] = "instances" } }

\* the projects endpoint e would fetch were there no exclusion: the resolved
\* list, or the projects discovered (with its fallback) under `all`
Candidates(e) ==
    IF InList(s_all, config[e].filters.projects)
    THEN Range(DiscoverProjects(world[e]).projects)
    ELSE Range(config[e].filters.projects)

\* C26: whatever the origin of the project list (filters.projects,
\* --project, a fallback `default`), no project that an exclude_projects
\* pattern of the endpoint matches is ever fetched, and an endpoint whose
\* projects are all excluded issues no instances request and adds no host.
C26_ExclusionWhateverOrigin ==
    (Constructed /\ ~ret.exit) =>
        \A e \in 1..Len(config) :
            /\ \A p \in InstanceFetches(e) :
                   ~MatchesExclude(p, config[e].filters.exclude_projects)
            /\ (\A p \in Candidates(e) :
                    MatchesExclude(p, config[e].filters.exclude_projects))
                   => /\ InstanceFetches(e) = {}
                      /\ \A i \in 1..Len(assigned) : assigned[i].ep # e

\* --project proj with e1 excluding proj: e1 fetches nothing and adds no
\* host, e2 fetches proj and adds its instance
C26_Witness ==
    /\ Constructed
    /\ pc = "done"
    /\ call.args.project = n_proj
    /\ Len(config) = 2
    /\ config[1].filters.projects = <<n_proj>>
    /\ config[1].filters.exclude_projects = <<n_proj>>
    /\ InstanceFetches(1) = {}
    /\ InstanceFetches(2) = {n_proj}
    /\ Len(assigned) = 1
    /\ assigned[1].ep = 2

====
